---- MODULE Spec2Model ----
(***************************************************************************)
(* Model of the fenix kernel core: the L2 page table with its page         *)
(* handles (internals/mmu/l2.rs), the task table and scheduler             *)
(* (kernel/src/internals/tasks.rs), the system clock                       *)
(* (kernel/src/internals/sysclock.rs) and the syscall dispatcher           *)
(* (kernel/src/kernel.rs).                                                 *)
(***************************************************************************)
EXTENDS Integers, Naturals, Sequences, FiniteSets, TLC

\* ---------------------------------------------------------------- constants
MAX_TASKS == 4
STACK_GUARD == 1024
BASE_ADDRESS == 1076887552       \* 0x4030_0000
PAGE_SIZE_BITS == 12
PAGE_SIZE == 4096
PAGE_TABLE_SIZE == 256
L2_FAULT_PAGE_TABLE_ENTRY == 0
YIELD_PERIOD == 10               \* *ticks % 10 == 0
IRQ_MASK == 128                  \* 0x80, the I bit of the CPSR
I32_MAX == 2147483647            \* 2^31 - 1: the u32 values above it are held negative

\* Option<T>
None == <<>>
Some(x) == <<x>>
IsSome(o) == o /= None
Unwrap(o) == o[1]

\* ------------------------------------------------------------------- bounds
BootTicks == 9       \* ticks counted during boot, before the first create_task
MaxTicks == 11       \* the clock is stopped once it has reached this value
MaxCreates == 4      \* create_task calls explored by Spec
MaxCreateCalls == 5  \* create_task calls explored by CreateSpec
MaxSyscallTasks == 2 \* create_task calls explored by SyscallSpec
MaxUnregisters == 1  \* unregister calls explored by PageSpec
MaxHeld == 2         \* handles taken by HandleSpec
MaxHeap == 64        \* bytes of the kernel heap
MaxHeapAllocs == 3   \* blocks handed out in HeapSpec
MaxVecLen == 3       \* elements pushed in VecSpec
MaxIrqs == 2         \* handle_interrupt calls explored by IrqSpec
MaxIrqTasks == 1     \* create_task calls explored by IrqSpec
MaxExhaustCreates == 5 \* create_task calls explored by ExhaustSpec
MaxAllocTasks == 1   \* create_task calls explored by AllocSpec
MaxArmTasks == 1     \* create_task calls explored by ArmSpec
MaxLegacyTasks == 2  \* create_task calls explored by LegacySpec
MaxRoundTasks == 2   \* create_task calls explored by RoundSpec
MaxDepth == 3        \* nested critical sections explored by LockSpec
ClockSpan == 15      \* ticks explored by ClockSpec on each side of the overflow
MaxWaitTasks == 1    \* create_task calls explored by WaitSpec

\* ------------------------------------------------------------ input domains
\* Spec explores the whole task table with one value per syscall argument;
\* SyscallSpec explores few tasks with several values per argument.
CodeLens == {100}                          \* lengths of the program images
Untils == {0, 10}                          \* r2 of Yield (0: no deadline)
Layouts == {[size |-> 4096, align |-> 4]}  \* Spec: layouts of Alloc/Dealloc
SavedSp == {4092}                          \* Spec: r0 of Yield
SavedPc == {0}                             \* Spec: r1 of Yield
SyscallLayouts == {[size |-> 2048, align |-> 4], [size |-> 4096, align |-> 8]}
SyscallSavedSp == {4036}
SyscallSavedPc == {64}
Asids == {None, Some(1)}                   \* HandleSpec: asid of try_new
Delays == {5, 15, 20}                      \* WaitSpec: ms of wait

VARIABLES
    tasks,              \* Scheduler.tasks
    current_index,      \* Scheduler.current_index
    LEVEL2_PAGE_TABLE,  \* the 256 descriptors of the L2 table
    USED_PAGES,         \* the allocation bitmap
    SYS_CLOCK,          \* the u32 tick counter, held as the 32-bit two's-complement
                        \* integer of the same bits: 2^32 - k is held as -k
    mode,               \* "kernel": kernel_loop has the CPU; "user": a task has;
                        \* "i2c": swi_handler is in the I2cWrite arm, IRQs enabled;
                        \* "halted": the panic handler spins with IRQs masked
    creates,            \* number of create_task calls so far
    dispatched,         \* index of the task switch() dispatched last (history)
    held,               \* PageSpec, HandleSpec: handles got from try_new
    unregisters,        \* PageSpec: number of unregister calls so far
    before_register,    \* HandleSpec: the tables before the last register()
    cpsr,               \* LockSpec: the control byte of the CPSR
    guards,             \* LockSpec: the live guards, the outermost first
    trap,               \* TrapSpec: the TrapFrame swi_handler was entered with
                        \* last and what try_into made of it (history)
    tick_log,           \* whether each of the last 10 ticks called yield_task
                        \* (history)
    I2C,                \* the driver of the I2C module: its ready flag and its
                        \* stored error
    INTERRUPT_HANDLERS, \* the 128 handlers of the interrupt controller
    TIMERS,             \* the registered timers, by DmTimer
    irq_log,            \* the number of handle_interrupt calls so far, the
                        \* SIR_IRQ the last one read and what it did, in order
                        \* (history)
    registered,         \* the handler each interrupt was registered with last
                        \* (history)
    ALLOCATOR,          \* the BumpAllocator of the kernel heap (src/alloc/heap.rs)
    blocks,             \* the blocks alloc has returned, the first one first
                        \* (history)
    vec,                \* a Vec<u8> on the kernel heap: its buffer, len and cap
    waits,              \* for each slot, the clock value at which its task
                        \* called wait last and the ms it asked for (history)
    last                \* the operation that produced this state (history)

vars == <<tasks, current_index, LEVEL2_PAGE_TABLE, USED_PAGES, SYS_CLOCK, mode,
          creates, dispatched, held, unregisters, before_register, cpsr, guards,
          trap, tick_log, I2C, INTERRUPT_HANDLERS, TIMERS, irq_log, registered,
          ALLOCATOR, blocks, vec, waits, last>>

\* the variables of the interrupt controller and of the timers
intc == <<INTERRUPT_HANDLERS, TIMERS, irq_log, registered>>

\* the variables of the library crates: the kernel heap, the vector on it and
\* the calls of wait
library == <<ALLOCATOR, blocks, vec, waits>>

\* ---------------------------------------------------------------- TaskState
Ready == [tag |-> "Ready"]
Running == [tag |-> "Running"]
Terminated == [tag |-> "Terminated"]
Stored == [tag |-> "Stored"]
Waiting(until) == [tag |-> "Waiting", until |-> until]

\* ------------------------------------------------- L2SmallPageTableEntry
\* L2SmallPageTableEntry::empty
EmptyPage ==
    [asid |-> None, virtual_address |-> 0, physical_address |-> 0,
     permissions |-> "Full"]

\* From<&AccessPermissions> for u32
AccessPermissionsBits(p) == IF p = "Full" THEN 48 ELSE 0    \* 0b11 << 4

\* From<&L2SmallPageTableEntry> for u32:
\*   address | non_global << 11 | permissions | 0b10
\* The four fields occupy disjoint bits (the address is page aligned), so the
\* bitwise or is their sum.
Descriptor(h) ==
    h.physical_address + (IF IsSome(h.asid) THEN 2048 ELSE 0)
        + AccessPermissionsBits(h.permissions) + 2

\* the two low bits of a descriptor: 0b00 is a fault entry, 0b1x a small page
IsSmallPage(d) == (d \div 2) % 2 = 1
IsFault(d) == d % 4 = 0

\* a scan from the end of the range: the last index that is not used
FirstFree_last(used) ==
    LET free == {i \in 0..(PAGE_TABLE_SIZE - 1) : ~used[i]} IN
    IF free = {} THEN None
    ELSE Some(CHOOSE i \in free : \A j \in free : i >= j)

\* (0..PAGE_TABLE_SIZE).find(|&i| !USED_PAGES[i]): the first index of the
\* range that is not used
FirstFree(used) ==
    LET free == {i \in 0..(PAGE_TABLE_SIZE - 1) : ~used[i]} IN
    IF free = {} THEN None
    ELSE Some(CHOOSE i \in free : \A j \in free : i <= j)

\* a try_new that hands out the first frame whatever index it found
try_new_no_offset(used, asid) ==
    LET current_index_ == FirstFree(used) IN
    IF current_index_ = None THEN None
    ELSE Some([asid |-> asid,
               virtual_address |-> 0,
               physical_address |-> BASE_ADDRESS,
               permissions |-> "Full"])

\* L2SmallPageTableEntry::try_new: the handle, or None when no page is free
try_new(used, asid) ==
    LET current_index_ == FirstFree(used) IN
    IF current_index_ = None THEN None
    ELSE Some([asid |-> asid,
               virtual_address |-> 0,
               physical_address |-> BASE_ADDRESS + Unwrap(current_index_) * PAGE_SIZE,
               permissions |-> "Full"])

\* a try_new that does not mark the page it hands out
try_new_used_unmarked(used) == used

\* the effect of try_new on USED_PAGES
try_new_used(used) ==
    LET current_index_ == FirstFree(used) IN
    IF current_index_ = None THEN used
    ELSE [used EXCEPT ![Unwrap(current_index_)] = TRUE]

\* index of the L2 entry a handle is stored in
L2Slot(h) == h.virtual_address \div PAGE_SIZE

\* index of the physical frame of a handle
FrameIndex(h) == (h.physical_address - BASE_ADDRESS) \div PAGE_SIZE

\* a register that writes no descriptor
register_skips(l2, h) == l2

\* L2SmallPageTableEntry::register
register(l2, h) == [l2 EXCEPT ![L2Slot(h)] = Descriptor(h)]

\* an unregister that leaves the descriptor in the table
unregister_l2_keeps(l2, h) == l2

\* L2SmallPageTableEntry::unregister, its write to LEVEL2_PAGE_TABLE
unregister_l2(l2, h) == [l2 EXCEPT ![L2Slot(h)] = L2_FAULT_PAGE_TABLE_ENTRY]

\* an unregister that does not give the page back
unregister_used_keeps(used, h) == used

\* an unregister that frees the lowest used page, not the page of the handle
unregister_used_lowest(used, h) ==
    LET taken == {i \in 0..(PAGE_TABLE_SIZE - 1) : used[i]} IN
    IF taken = {} THEN used
    ELSE [used EXCEPT ![CHOOSE i \in taken : \A j \in taken : i <= j] = FALSE]

\* L2SmallPageTableEntry::unregister, its write to USED_PAGES
unregister_used(used, h) == [used EXCEPT ![FrameIndex(h)] = FALSE]

\* L2SmallPageTableEntry::start / end
PageStart(h) == h.virtual_address
PageEnd(h) == h.virtual_address + PAGE_SIZE - 4

\* ------------------------------------------------------------ BumpAllocator
\* BumpAllocator::new
NewAllocator == [heap_start |-> 0, heap_end |-> 0, next |-> 0]

\* BumpAllocator::init
InitAllocator(start, end) == [heap_start |-> start, heap_end |-> end, next |-> start]

\* an align_up that rounds down
align_up_rounds_down(addr, align) == (addr \div align) * align

\* align_up, for a power-of-two align: (addr + align - 1) & !(align - 1)
align_up(addr, align) == ((addr + align - 1) \div align) * align

\* BumpAllocator::alloc: the pointer returned (0 is null)
alloc_ptr(a, layout) ==
    LET alloc_start == align_up(a.next, layout.align)
        alloc_end == alloc_start + layout.size
    IN IF alloc_end > a.heap_end THEN 0 ELSE alloc_start

\* BumpAllocator::alloc: the allocator afterwards
alloc(a, layout) ==
    LET alloc_start == align_up(a.next, layout.align)
        alloc_end == alloc_start + layout.size
    IN IF alloc_end > a.heap_end THEN a ELSE [a EXCEPT !.next = alloc_end]

\* ---------------------------------------------------------------- I2C driver
\* I2C::new; the transfers of boot have set ready again and left no error
NewI2C == [ready |-> TRUE, error |-> None]

\* the interrupts enabled for I2cMode::Transmitter that set ready or error
I2cInterrupts == {"ARDY", "NACK"}

\* the bytes a write hands over: none, or some
DataLens == {0, 8}

\* I2c::transaction up to wait_ready: an empty buffer is skipped, for any
\* other one ready is cleared and the transfer is started
transaction_start(i2c, len) == IF len = 0 THEN i2c ELSE [i2c EXCEPT !.ready = FALSE]

\* I2C::irq_handler, for the status bit that raised the interrupt
irq_handler(i2c, status) ==
    CASE status = "ARDY" -> [i2c EXCEPT !.ready = TRUE]
      [] status = "NACK" -> [ready |-> TRUE, error |-> Some("Nack")]
      [] OTHER -> i2c

\* the I2cError the I2cWrite arm returns: the error of transaction, Success
\* for Ok(())
transaction_error(i2c) == IF IsSome(i2c.error) THEN Unwrap(i2c.error) ELSE "Success"

\* an end of transaction that keeps the stored error
transaction_end_keeps_error(i2c) == i2c

\* I2c::transaction from wait_ready: the stored error is taken out
transaction_end(i2c) == [i2c EXCEPT !.error = None]

\* --------------------------------------------------------------------- Task
\* Task::empty, with the id Scheduler::init gives the slot
EmptyTask(i) ==
    [id |-> i, state |-> Terminated, context |-> [sp |-> 0, pc |-> 0],
     allocator |-> NewAllocator, page |-> EmptyPage]

\* u32 arithmetic on the two's-complement integers: a % m, a >= b, a + 1
\* (2^32 is 2 * (I32_MAX + 1))
u32_rem(a, m) ==
    IF a >= 0 THEN a % m ELSE ((a % m) + 2 * ((I32_MAX % m) + 1)) % m

u32_ge(a, b) ==
    IF (a >= 0) = (b >= 0) THEN a >= b ELSE a < 0

u32_is_max(a) == a = -1

u32_wrapping_inc(a) ==
    IF u32_is_max(a) THEN 0 ELSE IF a = I32_MAX THEN (-I32_MAX) - 1 ELSE a + 1

\* a + b and a - b on u32 in a build without overflow checks, and whether
\* a + b overflows (the sum is then below a)
u32_wrapping_add(a, b) ==
    IF a >= 0 /\ b >= 0 /\ a > I32_MAX - b
    THEN ((a - I32_MAX) - 1) + ((b - I32_MAX) - 1)
    ELSE IF a < 0 /\ b < 0 /\ a < ((-I32_MAX) - 1) - b
    THEN ((a + I32_MAX) + 1) + ((b + I32_MAX) + 1)
    ELSE a + b

u32_wrapping_sub(a, b) ==
    IF (a >= 0) = (b >= 0) THEN a - b
    ELSE IF a < 0
    THEN IF (a + I32_MAX) + 1 < b THEN (((a + I32_MAX) + 1) - b) + I32_MAX + 1
         ELSE a - b
    ELSE IF a > I32_MAX + b THEN ((((a - I32_MAX) - 1) - b) - I32_MAX) - 1
         ELSE a - b

u32_add_overflows(a, b) == ~u32_ge(u32_wrapping_add(a, b), a)

\* no task has called wait
NoWaits == [i \in 0..(MAX_TASKS - 1) |-> None]

\* millis()
millis == SYS_CLOCK

\* an executable() whose deadline test is strict
executable_strict(t, now) ==
    CASE t.state.tag \in {"Ready", "Stored"} -> TRUE
      [] t.state.tag = "Waiting" -> now > t.state.until
      [] OTHER -> FALSE

\* Task::executable: the result
executable(t, now) ==
    CASE t.state.tag \in {"Ready", "Stored"} -> TRUE
      [] t.state.tag = "Waiting" -> u32_ge(now, t.state.until)
      [] OTHER -> FALSE

\* Task::executable: the task afterwards (a due Waiting task becomes Stored)
executable_task(t, now) ==
    IF t.state.tag = "Waiting" /\ u32_ge(now, t.state.until)
    THEN [t EXCEPT !.state = Stored]
    ELSE t

\* a terminate that unregisters the page and leaves the task Stored
terminate_to_stored(t) == [t EXCEPT !.state = Stored]

\* a terminate that unregisters the page and leaves the state as it is
terminate_keeps_state(t) == t

\* Task::terminate, its write to the task
terminate(t) == [t EXCEPT !.state = Terminated]

\* ---------------------------------------------------------------- Scheduler
\* a current() whose filter on the state is inverted
current_not_running(ts, ci) ==
    IF IsSome(ci) /\ ts[Unwrap(ci)].state /= Running THEN ci ELSE None

\* Scheduler::current
current(ts, ci) ==
    IF IsSome(ci) /\ ts[Unwrap(ci)].state = Running THEN ci ELSE None

\* a cycle() that does not wrap around
cycle_unbounded(ci) == IF IsSome(ci) THEN Some(Unwrap(ci) + 1) ELSE ci

\* a cycle() that steps back by one slot
cycle_back(ci) ==
    IF IsSome(ci) THEN Some((Unwrap(ci) + MAX_TASKS - 1) % MAX_TASKS) ELSE ci

\* a cycle() that does not advance
cycle_stays(ci) == ci

\* Scheduler::cycle
cycle(ci) == IF IsSome(ci) THEN Some((Unwrap(ci) + 1) % MAX_TASKS) ELSE ci

\* the loop of Scheduler::task_with_state
RECURSIVE task_with_state_loop(_, _, _, _)
task_with_state_loop(ts, state, index, initial_index) ==
    IF ts[index].state = state THEN Some(index)
    ELSE LET next == (index + 1) % MAX_TASKS IN
         IF next = initial_index THEN None
         ELSE task_with_state_loop(ts, state, next, initial_index)

\* a task_with_state that scans from the initial index to the end of the
\* array and does not wrap around
task_with_state_no_wrap(ts, ci, state) ==
    LET initial_index == IF IsSome(ci) THEN Unwrap(ci) ELSE 0
        hits == {i \in initial_index..(MAX_TASKS - 1) : ts[i].state = state}
    IN IF hits = {} THEN None ELSE Some(CHOOSE i \in hits : \A j \in hits : i <= j)

\* a task_with_state that starts its scan one slot after the initial index
task_with_state_skips_first(ts, ci, state) ==
    LET initial_index == IF IsSome(ci) THEN Unwrap(ci) ELSE 0
        first == (initial_index + 1) % MAX_TASKS
    IN task_with_state_loop(ts, state, first, first)

\* a task_with_state that scans from slot 0 whatever the current index is
task_with_state_from_zero(ts, ci, state) == task_with_state_loop(ts, state, 0, 0)

\* Scheduler::task_with_state
task_with_state(ts, ci, state) ==
    LET initial_index == IF IsSome(ci) THEN Unwrap(ci) ELSE 0 IN
    task_with_state_loop(ts, state, initial_index, initial_index)

\* the loop of Scheduler::next_task
RECURSIVE next_task_loop(_, _, _, _)
next_task_loop(ts, now, index, initial_index) ==
    IF executable(ts[index], now) THEN Some(index)
    ELSE LET next == (index + 1) % MAX_TASKS IN
         IF next = initial_index THEN None
         ELSE next_task_loop(ts, now, next, initial_index)

\* a next_task that scans from slot 0 whatever current_index is
next_task_from_zero(ts, ci, now) == next_task_loop(ts, now, 0, 0)

\* Scheduler::next_task: the slot chosen
next_task(ts, ci, now) ==
    LET initial_index == IF IsSome(ci) THEN Unwrap(ci) ELSE 0 IN
    next_task_loop(ts, now, initial_index, initial_index)

\* Scheduler::next_task: the task table afterwards
next_task_tasks(ts, ci, now) ==
    LET n == next_task(ts, ci, now) IN
    IF n = None THEN ts
    ELSE [ts EXCEPT ![Unwrap(n)] = executable_task(ts[Unwrap(n)], now)]

\* ------------------------------------------------------ critical sections
\* whether the I bit of a CPSR is set: IRQs are masked
irq_masked(c) == (c \div IRQ_MASK) % 2 = 1

\* cpsr | 0x80
set_irq_mask(c) == IF irq_masked(c) THEN c ELSE c + IRQ_MASK

\* cpsr & !0x80
clear_irq_mask(c) == IF irq_masked(c) THEN c - IRQ_MASK ELSE c

\* the mode bits of the privileged modes the kernel runs in: irq, svc, system
PrivilegedModes == {18, 19, 31}
SvcMode == 19                    \* the mode bits _start is entered with at reset

\* the control bytes of the CPSR in those modes: the mode bits, T, F and I
Cpsrs ==
    {m + t + f + i : m \in PrivilegedModes, t \in {0, 32}, f \in {0, 64},
                     i \in {0, IRQ_MASK}}

\* a disable_interrupts that hands back the CPSR it has written
disable_interrupts_new(c) == [cpsr |-> set_irq_mask(c), ret |-> set_irq_mask(c)]

\* disable_interrupts: the CPSR afterwards and the CPSR returned
disable_interrupts(c) == [cpsr |-> set_irq_mask(c), ret |-> c]

\* enable_interrupts: the CPSR afterwards and the CPSR returned
enable_interrupts(c) == [cpsr |-> clear_irq_mask(c), ret |-> c]

\* restore_cpsr: the CPSR afterwards
restore_cpsr(c) == c

\* the tick_log of a clock that has counted c ticks from 0
BootLog(c) ==
    LET n == IF u32_ge(c, YIELD_PERIOD) THEN YIELD_PERIOD ELSE c
    IN [k \in 1..n |-> u32_rem(c - n + k, YIELD_PERIOD) = 0]

\* ------------------------------------------- the kernel heap (src/alloc)
\* the null pointer alloc returns when the heap is exhausted
NULL == 0

\* align_up of src/alloc/heap.rs: addr & !(align - 1), the largest multiple of
\* the power of two `align` that is not above addr
legacy_align_up(addr, align) == addr - (addr % align)

\* BumpAllocator::alloc, the pointer it returns
legacy_alloc_ptr(a, layout) ==
    LET alloc_start == legacy_align_up(a.next, layout.align)
        alloc_end == alloc_start + layout.size
    IN IF alloc_end > a.heap_end THEN NULL ELSE alloc_start

\* BumpAllocator::alloc, the allocator it leaves
legacy_alloc(a, layout) ==
    LET alloc_start == legacy_align_up(a.next, layout.align)
        alloc_end == alloc_start + layout.size
    IN IF alloc_end > a.heap_end THEN a ELSE [a EXCEPT !.next = alloc_end]

\* the blocks handed out once alloc has returned ptr for layout
Allocated(bs, ptr, layout) ==
    IF ptr = NULL THEN bs
    ELSE Append(bs, [ptr |-> ptr, size |-> layout.size, align |-> layout.align])

\* the addresses the linker gives heap_start: one aligned to the page, one
\* aligned to the word only
HeapStarts == {4096, 4100}

\* heap::initialize on the heap that starts at `start`
HeapAllocator(start) == InitAllocator(start, start + MaxHeap)

\* the kernel heap once _start has run heap::initialize
BootAllocator == HeapAllocator(4096)

\* ------------------------------------------------------- Vec (src/alloc)
\* the content of a cell of the buffer that was never written
UNINIT == -1

\* Vec::new
NewVec == [data |-> <<>>, len |-> 0, cap |-> 0]

\* Layout::array::<u8>(n)
ArrayLayout(n) == [size |-> n, align |-> 1]

\* Vec::grow, its new capacity
new_capacity(v) == IF v.cap = 0 THEN 1 ELSE v.cap * 2

\* Vec::grow once alloc has returned a buffer: the len elements are copied
\* to the new buffer, whose other cells were never written
grow(v) ==
    [v EXCEPT !.data = [k \in 1..new_capacity(v) |->
                            IF k <= v.len THEN v.data[k] ELSE UNINIT],
              !.cap = new_capacity(v)]

\* Vec::push after the grow, if there was one
push(v, val) == [v EXCEPT !.data[v.len + 1] = val, !.len = v.len + 1]

\* ptr::copy_nonoverlapping(ptr + src, ptr + dst, count), cells numbered from
\* 0. The two ranges must not overlap; when they do the copy is undefined,
\* and a build copies upwards from the first cell or downwards from the last.
copy_nonoverlapping(data, src, dst, count) ==
    LET upwards == [k \in 1..Len(data) |->
                       IF k - 1 \in dst..(dst + count - 1) THEN data[k + src - dst]
                       ELSE data[k]]
        RECURSIVE down(_, _)
        down(d, i) ==
            IF i < 0 THEN d
            ELSE down([d EXCEPT ![dst + i + 1] = d[src + i + 1]], i - 1)
        downwards == down(data, count - 1)
        overlap == count > 0 /\ src < dst + count /\ dst < src + count
    IN IF overlap THEN {upwards, downwards} ELSE {upwards}

\* Vec::remove, what it returns
remove_value(v, index) == IF index >= v.len THEN None ELSE Some(v.data[index + 1])

\* Vec::remove, the vectors it can leave: the elements after index are copied
\* one cell down, len is not written
remove(v, index) ==
    IF index >= v.len THEN {v}
    ELSE {[v EXCEPT !.data = data] :
              data \in copy_nonoverlapping(v.data, index + 1, index, v.len - index - 1)}

\* --------------------------------------------------------------- interrupts
\* enum Interrupt: the numbers of the known interrupts
I2C2INT == 30
TINT2 == 68
TINT3 == 69
TINT4 == 92
TINT5 == 93
TINT6 == 94
TINT7 == 95
GPIOINT1A == 98
Interrupts == {I2C2INT, TINT2, TINT3, TINT4, TINT5, TINT6, TINT7, GPIOINT1A}

\* the slots of INTERRUPT_HANDLERS
HANDLER_SLOTS == 128

\* Interrupt::new
Interrupt_new(num) == IF num \in Interrupts THEN Some(num) ELSE None

\* interrupts::current: the low seven bits of the SIR_IRQ register
current_interrupt(sir_irq) == Interrupt_new(sir_irq % HANDLER_SLOTS)

\* a register_handler that leaves a slot alone once a handler is in it
register_handler_keeps_first(handlers, handler, interrupt) ==
    IF handlers[interrupt] = "noop" THEN [handlers EXCEPT ![interrupt] = handler]
    ELSE handlers

\* interrupts::register_handler
register_handler(handlers, handler, interrupt) ==
    [handlers EXCEPT ![interrupt] = handler]

\* what handle_interrupt and the handlers do, as the events of irq_log
Event(event, arg) == [event |-> event, arg |-> arg]

\* interrupts::execute: the handler of a known interrupt is called
execute(handlers, interrupt) ==
    IF IsSome(interrupt) THEN <<Event("execute", handlers[Unwrap(interrupt)])>>
    ELSE <<>>

\* interrupts::clear: the new-IRQ acknowledgment
clear == <<Event("clear", "INTC_CONTROL")>>

\* ------------------------------------------------------------------- timers
\* enum DmTimer
DmTimers == {"Timer2", "Timer3", "Timer4", "Timer5", "Timer6", "Timer7"}

\* DmTimer::try_new
DmTimer_try_new(interrupt) ==
    CASE interrupt = TINT2 -> Some("Timer2")
      [] interrupt = TINT3 -> Some("Timer3")
      [] interrupt = TINT4 -> Some("Timer4")
      [] interrupt = TINT5 -> Some("Timer5")
      [] interrupt = TINT6 -> Some("Timer6")
      [] interrupt = TINT7 -> Some("Timer7")
      [] OTHER -> None

\* DmTimer::interrupt
DmTimer_interrupt(dm_timer) ==
    CASE dm_timer = "Timer2" -> TINT2
      [] dm_timer = "Timer3" -> TINT3
      [] dm_timer = "Timer4" -> TINT4
      [] dm_timer = "Timer5" -> TINT5
      [] dm_timer = "Timer6" -> TINT6
      [] dm_timer = "Timer7" -> TINT7

\* the reload of the tick timer, 0xFFFF_FFE0 as a 32-bit two's-complement
\* integer
TICK_RELOAD == -32

\* Timer::new
Timer(dm_timer, reload, handler) ==
    [timer |-> dm_timer, reload |-> reload, handler |-> handler]

\* timer::get_timer
get_timer(timers, interrupt) ==
    LET dm_timer == DmTimer_try_new(interrupt)
    IN IF dm_timer = None THEN None ELSE timers[Unwrap(dm_timer)]

\* a handle_timer_irq that acknowledges the overflow after the handler
handle_timer_irq_acks_last(timers, sir_irq) ==
    LET interrupt == current_interrupt(sir_irq)
        timer == IF IsSome(interrupt) THEN get_timer(timers, Unwrap(interrupt))
                 ELSE None
    IN IF IsSome(timer)
       THEN <<Event("handler", Unwrap(timer).handler),
              Event("irq_acknowledge", Unwrap(timer).timer)>>
       ELSE <<>>

\* Timer::handle_timer_irq: the timer of the current interrupt, if there is
\* one, is acknowledged and its handler is called
handle_timer_irq(timers, sir_irq) ==
    LET interrupt == current_interrupt(sir_irq)
        timer == IF IsSome(interrupt) THEN get_timer(timers, Unwrap(interrupt))
                 ELSE None
    IN IF IsSome(timer)
       THEN <<Event("irq_acknowledge", Unwrap(timer).timer),
              Event("handler", Unwrap(timer).handler)>>
       ELSE <<>>

\* the statics as constructed: every handler is noop, no timer is registered
NoHandlers == [i \in 0..(HANDLER_SLOTS - 1) |-> "noop"]
NoTimers == [t \in DmTimers |-> None]
NoIrq == [count |-> 0, sir_irq |-> 0, events |-> <<>>]
NoneRegistered == [i \in Interrupts |-> None]

\* the statics once _start has run gpio::initialize, i2c::initialize and
\* sysclock::initialize
BootHandlers ==
    [NoHandlers EXCEPT ![GPIOINT1A] = "handle_interrupts",
                       ![I2C2INT] = "irq_handler",
                       ![TINT2] = "handle_timer_irq"]
BootTimers ==
    [NoTimers EXCEPT !["Timer2"] = Some(Timer("Timer2", TICK_RELOAD, "interrupt_handler"))]
BootRegistered ==
    [NoneRegistered EXCEPT ![GPIOINT1A] = Some("handle_interrupts"),
                           ![I2C2INT] = Some("irq_handler"),
                           ![TINT2] = Some("handle_timer_irq")]

\* --------------------------------------------------------------------- Init
\* The state in which _start reaches its create_task loop: the statics are as
\* constructed, Scheduler::init has numbered the slots, and the clock has
\* counted the ticks of the boot sequence.
Init ==
    /\ tasks = [i \in 0..(MAX_TASKS - 1) |-> EmptyTask(i)]
    /\ current_index = None
    /\ LEVEL2_PAGE_TABLE = [i \in 0..(PAGE_TABLE_SIZE - 1) |-> L2_FAULT_PAGE_TABLE_ENTRY]
    /\ USED_PAGES = [i \in 0..(PAGE_TABLE_SIZE - 1) |-> FALSE]
    /\ SYS_CLOCK = BootTicks
    /\ mode = "kernel"
    /\ creates = 0
    /\ dispatched = None
    /\ held = {}
    /\ unregisters = 0
    /\ before_register = None
    /\ cpsr = set_irq_mask(SvcMode)
    /\ guards = <<>>
    /\ trap = None
    /\ tick_log = BootLog(BootTicks)
    /\ I2C = NewI2C
    /\ INTERRUPT_HANDLERS = BootHandlers
    /\ TIMERS = BootTimers
    /\ irq_log = NoIrq
    /\ registered = BootRegistered
    /\ ALLOCATOR = BootAllocator
    /\ blocks = <<>>
    /\ vec = NewVec
    /\ waits = NoWaits
    /\ last = [op |-> "init", task |-> None, ret |-> None, live |-> <<>>,
               value |-> None]

\* what an operation records about itself: its name, the task it acted on,
\* what it returned (for a syscall: the exit-flag), the Mutex guards that were
\* live when it gave up the CPU (none, where nothing else is said) and the
\* SyscallReturnValue handed to the caller (none, where nothing else is said)
Op(op, task, ret) ==
    [op |-> op, task |-> task, ret |-> ret, live |-> <<>>, value |-> None]

\* the variables of the page-handle harnesses
harness == <<held, unregisters, before_register, cpsr, guards, tick_log, I2C>>

\* ------------------------------------------------------------- create_task
\* Scheduler::create_task, called by the kernel (at boot, and whenever the
\* kernel has the CPU) with a program image of `len` bytes
\* a create_task that takes its page before it looks for a slot
create_task_used_page_first(used, slot) == try_new_used(used)

\* the effect of create_task on USED_PAGES: try_new is reached only when
\* task_with_state has returned a slot, and marks a page only when one is free
create_task_used(used, slot) ==
    IF slot = None THEN used ELSE try_new_used(used)

CreateTask(len, max_creates) ==
    /\ mode = "kernel"
    /\ creates < max_creates
    /\ creates' = creates + 1
    /\ LET slot == task_with_state(tasks, current_index, Terminated)
           page == IF slot = None THEN None
                   ELSE try_new(USED_PAGES, Some(tasks[Unwrap(slot)].id))
       IN IF slot = None \/ page = None
          THEN /\ last' = Op("create_task", None, None)
               /\ USED_PAGES' = create_task_used(USED_PAGES, slot)
               /\ UNCHANGED <<tasks, LEVEL2_PAGE_TABLE>>
          ELSE LET task_id == tasks[Unwrap(slot)].id
                   h == Unwrap(page)
               IN /\ USED_PAGES' = create_task_used(USED_PAGES, slot)
                  /\ LEVEL2_PAGE_TABLE' = register(LEVEL2_PAGE_TABLE, h)
                  /\ tasks' = [tasks EXCEPT ![task_id] =
                         [@ EXCEPT !.page = h,
                                   !.state = Ready,
                                   !.context = [sp |-> PageEnd(h), pc |-> PageStart(h)],
                                   !.allocator = InitAllocator(len, PageEnd(h) - STACK_GUARD)]]
                  /\ last' = Op("create_task", None, Some(task_id))
    /\ UNCHANGED <<current_index, SYS_CLOCK, mode, dispatched, harness, trap, intc, library>>

\* ------------------------------------------------------------------ switch
\* one iteration of kernel_loop: Scheduler::switch
Switch ==
    /\ mode = "kernel"
    /\ LET n == next_task(tasks, current_index, millis)
           ts == next_task_tasks(tasks, current_index, millis)
       IN IF n = None
          THEN /\ last' = Op("switch", None, None)
               /\ UNCHANGED <<tasks, current_index, LEVEL2_PAGE_TABLE, mode,
                              dispatched>>
          ELSE LET next_task_id == ts[Unwrap(n)].id
                   task == ts[next_task_id]
               IN /\ current_index' = Some(next_task_id)
                  /\ IF task.state.tag \in {"Ready", "Stored"}
                     THEN /\ tasks' = [ts EXCEPT ![next_task_id].state = Running]
                          /\ LEVEL2_PAGE_TABLE' = register(LEVEL2_PAGE_TABLE, task.page)
                          /\ mode' = "user"
                          /\ dispatched' = Some(next_task_id)
                          /\ last' = Op("switch", Some(next_task_id),
                                      Some([was |-> tasks[next_task_id].state.tag,
                                            via |-> IF task.state = Ready
                                                    THEN "switch_context"
                                                    ELSE "restore_context"]))
                     ELSE /\ tasks' = ts
                          /\ last' = Op("switch", None, None)
                          /\ UNCHANGED <<LEVEL2_PAGE_TABLE, mode, dispatched>>
    /\ UNCHANGED <<USED_PAGES, SYS_CLOCK, creates, harness, trap, intc, library>>

\* ------------------------------------------------------------- swi_handler
\* the Exit and Panic arms: terminate the current task, cycle, exit-flag true
ExitArm(op) ==
    LET c == current(tasks, current_index) IN
    /\ IF IsSome(c)
       THEN LET task == tasks[Unwrap(c)] IN
            /\ tasks' = [tasks EXCEPT ![Unwrap(c)] = terminate(task)]
            /\ LEVEL2_PAGE_TABLE' = unregister_l2(LEVEL2_PAGE_TABLE, task.page)
            /\ USED_PAGES' = unregister_used(USED_PAGES, task.page)
       ELSE UNCHANGED <<tasks, LEVEL2_PAGE_TABLE, USED_PAGES>>
    /\ current_index' = cycle(current_index)
    /\ mode' = "kernel"
    /\ last' = Op(op, c, Some(TRUE))
    /\ UNCHANGED <<SYS_CLOCK, creates, dispatched, harness>>

\* the two Yield arms: save the context, Stored or Waiting{until}, cycle,
\* exit-flag true
YieldArm(op, sp, pc, until, live) ==
    LET c == current(tasks, current_index) IN
    /\ IF IsSome(c)
       THEN tasks' = [tasks EXCEPT ![Unwrap(c)] =
                [@ EXCEPT !.context = [sp |-> sp, pc |-> pc],
                          !.state = IF until = None THEN Stored
                                    ELSE Waiting(Unwrap(until))]]
       ELSE UNCHANGED tasks
    /\ current_index' = cycle(current_index)
    /\ mode' = "kernel"
    /\ last' = [Op(op, c, Some(TRUE)) EXCEPT !.live = live]
    /\ UNCHANGED <<LEVEL2_PAGE_TABLE, USED_PAGES, creates, dispatched, held,
                   unregisters, before_register, cpsr, guards, I2C>>

\* a decoding of until that takes r2 = 0 for a deadline
DecodeUntil_always(r2) == Some(r2)

\* TryInto<Syscall> for &TrapFrame, the until of Yield: r2 = 0 is no deadline
DecodeUntil(r2) == IF r2 = 0 THEN None ELSE Some(r2)

\* the Millis, GpioWrite and GpioRead arms: neither the scheduler nor the page
\* table is touched, the caller is resumed (exit-flag false)
PeripheralArm(op) ==
    /\ last' = Op(op, current(tasks, current_index), Some(FALSE))
    /\ UNCHANGED <<tasks, current_index, LEVEL2_PAGE_TABLE, USED_PAGES, SYS_CLOCK,
                   mode, creates, dispatched, harness>>

\* the I2cWrite arm up to wait_ready: IRQs are unmasked, the transfer starts
\* and swi_handler waits for it
I2cWriteArmEnter(len) ==
    /\ mode' = "i2c"
    /\ I2C' = transaction_start(I2C, len)
    /\ last' = Op("I2cWrite", current(tasks, current_index), None)
    /\ UNCHANGED <<tasks, current_index, LEVEL2_PAGE_TABLE, USED_PAGES, SYS_CLOCK,
                   creates, dispatched, held, unregisters, before_register, cpsr,
                   guards, tick_log>>

\* the I2cWrite arm from wait_ready: ready is set, the stored error is taken
\* out and returned (Success if there is none), the CPSR is restored and the
\* caller is resumed (exit-flag false)
I2cWriteArmReturn ==
    /\ I2C.ready
    /\ mode' = "user"
    /\ I2C' = transaction_end(I2C)
    /\ last' = [Op("I2cWrite", current(tasks, current_index), Some(FALSE)) EXCEPT
                    !.value = Some(transaction_error(I2C))]
    /\ UNCHANGED <<tasks, current_index, LEVEL2_PAGE_TABLE, USED_PAGES, SYS_CLOCK,
                   creates, dispatched, held, unregisters, before_register, cpsr,
                   guards, tick_log>>

\* the Alloc arm: allocate from the current task's bump allocator and return
\* the pointer; SyscallReturn::none() when no task is running
AllocArm(layout) ==
    LET c == current(tasks, current_index) IN
    /\ IF IsSome(c)
       THEN tasks' = [tasks EXCEPT ![Unwrap(c)].allocator = alloc(@, layout)]
       ELSE UNCHANGED tasks
    /\ last' = [Op("Alloc", c, Some(FALSE)) EXCEPT
                    !.value = IF IsSome(c)
                              THEN Some(alloc_ptr(tasks[Unwrap(c)].allocator, layout))
                              ELSE None]
    /\ UNCHANGED <<current_index, LEVEL2_PAGE_TABLE, USED_PAGES, SYS_CLOCK, mode,
                   creates, dispatched, harness>>

\* a Dealloc arm that ends with SyscallReturn::exit()
DeallocArm_exits(layout) ==
    /\ last' = Op("Dealloc", current(tasks, current_index), Some(TRUE))
    /\ UNCHANGED <<tasks, current_index, LEVEL2_PAGE_TABLE, USED_PAGES, SYS_CLOCK,
                   mode, creates, dispatched, harness>>

\* the Dealloc arm: BumpAllocator::dealloc does nothing
DeallocArm(layout) ==
    /\ last' = Op("Dealloc", current(tasks, current_index), Some(FALSE))
    /\ UNCHANGED <<tasks, current_index, LEVEL2_PAGE_TABLE, USED_PAGES, SYS_CLOCK,
                   mode, creates, dispatched, harness>>

\* a task executes svc: swi_handler runs on the decoded syscall
SysExit == mode = "user" /\ ExitArm("Exit") /\ UNCHANGED <<trap, intc, library>>

SysPanic == mode = "user" /\ ExitArm("Panic") /\ UNCHANGED <<trap, intc, library>>

SysYield(sp, pc, r2) ==
    mode = "user" /\ YieldArm("Yield", sp, pc, DecodeUntil(r2), <<>>)
    /\ UNCHANGED <<SYS_CLOCK, tick_log, trap, intc, library>>

\* wait (libfenix): the deadline handed to wait_store is millis() + ms
wait_until(now, ms) == u32_wrapping_add(now, ms)

\* a task calls wait(ms) of the user library: millis() returns the clock and
\* wait_store issues Yield with r2 = millis() + ms. `+` on u32 wraps in a
\* build without overflow checks and panics in a build with them, and the
\* panic handler of the library issues the Panic syscall
Wait(ms, sp, pc) ==
    LET c == current(tasks, current_index) IN
    /\ mode = "user"
    /\ IsSome(c)
    /\ \/ /\ YieldArm("wait", sp, pc, DecodeUntil(wait_until(millis, ms)), <<>>)
          /\ waits' = [waits EXCEPT ![Unwrap(c)] = Some([t0 |-> millis, ms |-> ms])]
          /\ UNCHANGED <<SYS_CLOCK, tick_log>>
       \/ /\ u32_add_overflows(millis, ms)
          /\ ExitArm("Panic")
          /\ UNCHANGED waits
    /\ UNCHANGED <<trap, intc, ALLOCATOR, blocks, vec>>

SysMillis == mode = "user" /\ PeripheralArm("Millis") /\ UNCHANGED <<trap, intc, library>>

SysGpioWrite == mode = "user" /\ PeripheralArm("GpioWrite") /\ UNCHANGED <<trap, intc, library>>

SysGpioRead == mode = "user" /\ PeripheralArm("GpioRead") /\ UNCHANGED <<trap, intc, library>>

SysI2cWrite(len) == mode = "user" /\ I2cWriteArmEnter(len) /\ UNCHANGED <<trap, intc, library>>

\* the I2C module interrupts swi_handler while it waits for the transfer;
\* the operation recorded is the status bit
I2cIrq(status) ==
    /\ mode = "i2c"
    /\ I2C' = irq_handler(I2C, status)
    /\ last' = Op(status, None, None)
    /\ UNCHANGED <<tasks, current_index, LEVEL2_PAGE_TABLE, USED_PAGES, SYS_CLOCK,
                   mode, creates, dispatched, held, unregisters, before_register,
                   cpsr, guards, trap, tick_log, intc, library>>

\* the transfer of the I2cWrite in progress completes
I2cWriteReturn == mode = "i2c" /\ I2cWriteArmReturn /\ UNCHANGED <<trap, intc, library>>

SysAlloc(layout) == mode = "user" /\ AllocArm(layout) /\ UNCHANGED <<trap, intc, library>>

SysDealloc(layout) == mode = "user" /\ DeallocArm(layout) /\ UNCHANGED <<trap, intc, library>>

\* ---------------------------------------------------------------- sysclock
\* Mutex::lock: the guards that are live once the named Mutex is locked
lock(live, mutex) == Append(live, mutex)

\* MutexGuard::drop of the guard taken last
drop(live) == SubSeq(live, 1, Len(live) - 1)

\* yield_task, the hook of the tick handler: the interrupted context is saved
\* and the running task is yielded with no deadline
yield_task(sp, pc, live) == YieldArm("tick_yield", sp, pc, None, live)

\* the panic handler: interrupts are disabled and the kernel spins forever
panic(info) ==
    /\ mode' = "halted"
    /\ last' = Op("panic", None, Some(info))
    /\ cpsr' = disable_interrupts(cpsr).cpsr
    /\ UNCHANGED <<tasks, current_index, LEVEL2_PAGE_TABLE, USED_PAGES, SYS_CLOCK,
                   creates, dispatched, held, unregisters, before_register,
                   guards, tick_log, I2C>>

\* the tick_log after one more tick
Logged(log, yielded) ==
    LET l == Append(log, yielded)
    IN IF Len(l) > YIELD_PERIOD THEN Tail(l) ELSE l

\* sysclock::interrupt_handler, run on a timer IRQ while a task runs or while
\* the kernel runs with IRQs unmasked (the boot sequence, the kernel loop and
\* the transfer of the I2cWrite arm). *ticks += 1 on the u32 at its maximum
\* wraps to 0 in a build without overflow checks and panics in a build with
\* them. The guard `ticks` of SYS_CLOCK.lock() lives to the end of the
\* function, so it is live when yield_task is called and dropped after a
\* tick that does not yield.
interrupt_handler(sp, pc) ==
    /\ mode /= "halted"
    /\ \/ /\ SYS_CLOCK' = u32_wrapping_inc(SYS_CLOCK)
          /\ tick_log' = Logged(tick_log, u32_rem(SYS_CLOCK', YIELD_PERIOD) = 0)
          /\ IF u32_rem(SYS_CLOCK', YIELD_PERIOD) = 0
             THEN yield_task(sp, pc, lock(<<>>, "SYS_CLOCK"))
             ELSE /\ last' = [Op("tick", None, None) EXCEPT
                                  !.live = drop(lock(<<>>, "SYS_CLOCK"))]
                  /\ UNCHANGED <<tasks, current_index, LEVEL2_PAGE_TABLE, USED_PAGES,
                                 mode, creates, dispatched, held, unregisters,
                                 before_register, cpsr, guards, I2C>>
       \/ /\ u32_is_max(SYS_CLOCK)
          /\ panic("attempt to add with overflow")
    /\ UNCHANGED trap

\* the timer IRQs of the first milliseconds after boot
Tick(sp, pc) == SYS_CLOCK < MaxTicks /\ interrupt_handler(sp, pc) /\ UNCHANGED <<intc, library>>

\* the timer IRQs around the overflow of the counter
ClockTick(sp, pc) ==
    /\ SYS_CLOCK >= -ClockSpan
    /\ SYS_CLOCK < ClockSpan
    /\ interrupt_handler(sp, pc)
    /\ UNCHANGED <<intc, library>>

\* ------------------------------------------------------------ trap frames
\* the registers a task can put in its TrapFrame
R0s == {0, 2000, 1155559424}
R1s == {4, 21}
R2s == {0, 8, 10}
R3s == {0, 7}
R12s == (0..9) \cup {255}

\* Layout::from_size_align_unchecked is defined for a power-of-two align only
\* and the allocator of a task serves its one page
ValidAligns == {4, 8}
TrapFrames ==
    {f \in [r0 : R0s, r1 : R1s, r2 : R2s, r3 : R3s, r12 : R12s] :
        /\ f.r12 = 7 => (f.r1 \in ValidAligns /\ f.r0 <= PAGE_SIZE)
        /\ f.r12 = 8 => f.r2 \in ValidAligns}

\* the addresses of enum GpioBank
GpioBanks == {1155559424, 1208270848, 1209712640, 1209720832}

\* Result<Syscall, SyscallError>, and a conversion that panicked instead
Ok(syscall) == [tag |-> "Ok", syscall |-> syscall]
Err == [tag |-> "Err"]
Panicked(info) == [tag |-> "panic", info |-> info]

\* r0 as u8
as_u8(r) == r % 256

\* a try_into with no Err arm: every frame is an Exit
try_into_lenient(frame) == Ok([tag |-> "Exit"])

\* TryInto<Syscall> for &TrapFrame; GpioBank::from panics on an address that
\* is no bank
try_into(frame) ==
    CASE frame.r12 = 0 -> Ok([tag |-> "Exit"])
      [] frame.r12 = 1 ->
            Ok([tag |-> "Yield", sp |-> frame.r0, pc |-> frame.r1,
                until |-> DecodeUntil(frame.r2)])
      [] frame.r12 = 2 -> Ok([tag |-> "Millis"])
      [] frame.r12 = 3 ->
            IF frame.r0 \in GpioBanks
            THEN Ok([tag |-> "GpioRead", pin |-> <<frame.r1, frame.r0>>])
            ELSE Panicked("invalid gpio bank")
      [] frame.r12 = 4 ->
            IF frame.r0 \in GpioBanks
            THEN Ok([tag |-> "GpioWrite", pin |-> <<frame.r1, frame.r0>>,
                     value |-> frame.r2 /= 0])
            ELSE Panicked("invalid gpio bank")
      [] frame.r12 = 5 ->
            Ok([tag |-> "I2cWrite", address |-> as_u8(frame.r0),
                data |-> [ptr |-> frame.r1, len |-> frame.r2]])
      [] frame.r12 = 6 -> Ok([tag |-> "Panic"])
      [] frame.r12 = 7 ->
            Ok([tag |-> "Alloc", layout |-> [size |-> frame.r0, align |-> frame.r1]])
      [] frame.r12 = 8 ->
            Ok([tag |-> "Dealloc", ptr |-> frame.r0,
                layout |-> [size |-> frame.r1, align |-> frame.r2]])
      [] OTHER -> Err

\* swi_handler: decode the frame, panic on an unknown number, else run the arm
swi_handler(frame) ==
    LET decoded == try_into(frame) IN
    /\ trap' = Some([frame |-> frame, decoded |-> decoded])
    /\ UNCHANGED <<intc, library>>
    /\ CASE decoded.tag = "panic" -> panic(decoded.info)
         [] decoded.tag = "Err" -> panic("invalid syscall")
         [] OTHER ->
            LET syscall == decoded.syscall IN
               CASE syscall.tag = "Exit" -> ExitArm("Exit")
                 [] syscall.tag = "Yield" ->
                       /\ YieldArm("Yield", syscall.sp, syscall.pc, syscall.until, <<>>)
                       /\ UNCHANGED <<SYS_CLOCK, tick_log>>
                 [] syscall.tag = "Millis" -> PeripheralArm("Millis")
                 [] syscall.tag = "GpioRead" -> PeripheralArm("GpioRead")
                 [] syscall.tag = "GpioWrite" -> PeripheralArm("GpioWrite")
                 [] syscall.tag = "I2cWrite" -> I2cWriteArmEnter(syscall.data.len)
                 [] syscall.tag = "Panic" -> ExitArm("Panic")
                 [] syscall.tag = "Alloc" -> AllocArm(syscall.layout)
                 [] syscall.tag = "Dealloc" -> DeallocArm(syscall.layout)

\* a task executes svc with the registers of `frame`
Svc(frame) == mode = "user" /\ swi_handler(frame)

\* ------------------------------------------------------------ the kernel
Next ==
    \/ \E len \in CodeLens : CreateTask(len, MaxCreates)
    \/ Switch
    \/ SysExit
    \/ SysPanic
    \/ \E sp \in SavedSp, pc \in SavedPc, r2 \in Untils : SysYield(sp, pc, r2)
    \/ SysMillis
    \/ SysGpioWrite
    \/ SysGpioRead
    \/ \E len \in DataLens \ {0} : SysI2cWrite(len)
    \/ I2cIrq("ARDY")
    \/ I2cWriteReturn
    \/ \E layout \in Layouts : SysAlloc(layout)
    \/ \E layout \in Layouts : SysDealloc(layout)
    \/ \E sp \in SavedSp, pc \in SavedPc : Tick(sp, pc)

Spec == Init /\ [][Next]_vars

\* the kernel with few tasks and several values per syscall argument
SyscallNext ==
    \/ \E len \in CodeLens : CreateTask(len, MaxSyscallTasks)
    \/ Switch
    \/ SysExit
    \/ SysPanic
    \/ \E sp \in SyscallSavedSp, pc \in SyscallSavedPc, r2 \in Untils : SysYield(sp, pc, r2)
    \/ SysMillis
    \/ SysGpioWrite
    \/ SysGpioRead
    \/ \E len \in DataLens : SysI2cWrite(len)
    \/ \E status \in I2cInterrupts : I2cIrq(status)
    \/ I2cWriteReturn
    \/ \E layout \in SyscallLayouts : SysAlloc(layout)
    \/ \E layout \in SyscallLayouts : SysDealloc(layout)
    \/ \E sp \in SyscallSavedSp, pc \in SyscallSavedPc : Tick(sp, pc)

SyscallSpec == Init /\ [][SyscallNext]_vars

\* the kernel creating more tasks than it has slots, with the syscalls that
\* free a slot or keep it, while the clock stands still
CreateNext ==
    \/ \E len \in CodeLens : CreateTask(len, MaxCreateCalls)
    \/ Switch
    \/ SysExit
    \/ SysPanic
    \/ \E sp \in SavedSp, pc \in SavedPc, r2 \in Untils : SysYield(sp, pc, r2)

CreateSpec == Init /\ [][CreateNext]_vars

\* the kernel after 49 days: the counter is ClockSpan ticks from its maximum
ClockInit ==
    /\ tasks = [i \in 0..(MAX_TASKS - 1) |-> EmptyTask(i)]
    /\ current_index = None
    /\ LEVEL2_PAGE_TABLE = [i \in 0..(PAGE_TABLE_SIZE - 1) |-> L2_FAULT_PAGE_TABLE_ENTRY]
    /\ USED_PAGES = [i \in 0..(PAGE_TABLE_SIZE - 1) |-> FALSE]
    /\ SYS_CLOCK = -ClockSpan
    /\ mode = "kernel"
    /\ creates = 0
    /\ dispatched = None
    /\ held = {}
    /\ unregisters = 0
    /\ before_register = None
    /\ cpsr = set_irq_mask(SvcMode)
    /\ guards = <<>>
    /\ trap = None
    /\ tick_log = BootLog(-ClockSpan)
    /\ I2C = NewI2C
    /\ INTERRUPT_HANDLERS = BootHandlers
    /\ TIMERS = BootTimers
    /\ irq_log = NoIrq
    /\ registered = BootRegistered
    /\ ALLOCATOR = BootAllocator
    /\ blocks = <<>>
    /\ vec = NewVec
    /\ waits = NoWaits
    /\ last = [op |-> "init", task |-> None, ret |-> None, live |-> <<>>,
               value |-> None]

ClockNext ==
    \/ \E len \in CodeLens : CreateTask(len, MaxSyscallTasks)
    \/ Switch
    \/ SysExit
    \/ \E sp \in SavedSp, pc \in SavedPc, r2 \in Untils : SysYield(sp, pc, r2)
    \/ \E sp \in SavedSp, pc \in SavedPc : ClockTick(sp, pc)

ClockSpec == ClockInit /\ [][ClockNext]_vars

\* ------------------------------------------------ the critical sections
\* kernel code in any privileged mode, with IRQs masked or not
LockInit ==
    /\ tasks = [i \in 0..(MAX_TASKS - 1) |-> EmptyTask(i)]
    /\ current_index = None
    /\ LEVEL2_PAGE_TABLE = [i \in 0..(PAGE_TABLE_SIZE - 1) |-> L2_FAULT_PAGE_TABLE_ENTRY]
    /\ USED_PAGES = [i \in 0..(PAGE_TABLE_SIZE - 1) |-> FALSE]
    /\ SYS_CLOCK = BootTicks
    /\ mode = "kernel"
    /\ creates = 0
    /\ dispatched = None
    /\ held = {}
    /\ unregisters = 0
    /\ before_register = None
    /\ cpsr \in Cpsrs
    /\ guards = <<>>
    /\ trap = None
    /\ tick_log = BootLog(BootTicks)
    /\ I2C = NewI2C
    /\ INTERRUPT_HANDLERS = BootHandlers
    /\ TIMERS = BootTimers
    /\ irq_log = NoIrq
    /\ registered = BootRegistered
    /\ ALLOCATOR = BootAllocator
    /\ blocks = <<>>
    /\ vec = NewVec
    /\ waits = NoWaits
    /\ last = [op |-> "init", task |-> None, ret |-> None, live |-> <<>>,
               value |-> None]

\* the variables the critical sections leave alone
unlocked == <<tasks, current_index, LEVEL2_PAGE_TABLE, USED_PAGES, SYS_CLOCK, mode,
              creates, dispatched, held, unregisters, before_register, trap,
              tick_log, I2C, intc, library>>

\* the CPSRs seen just before each live acquisition, the outermost first
\* (history)
Seen == IF last.op \in {"lock", "drop"} THEN Unwrap(last.ret) ELSE <<>>

\* Mutex::lock, CriticalSection::lock: disable_interrupts, the guard keeps
\* what it returned
Lock ==
    /\ Len(guards) < MaxDepth
    /\ cpsr' = disable_interrupts(cpsr).cpsr
    /\ guards' = Append(guards, [cpsr |-> disable_interrupts(cpsr).ret])
    /\ last' = Op("lock", None, Some(Append(Seen, cpsr)))
    /\ UNCHANGED unlocked

\* MutexGuard::drop, CriticalSectionGuard::drop of the guard taken last
Drop ==
    /\ guards /= <<>>
    /\ cpsr' = restore_cpsr(guards[Len(guards)].cpsr)
    /\ guards' = SubSeq(guards, 1, Len(guards) - 1)
    /\ last' = Op("drop", None, Some(SubSeq(Seen, 1, Len(Seen) - 1)))
    /\ UNCHANGED unlocked

\* enable_interrupts and disable_interrupts called outside every critical
\* section
EnableInterrupts ==
    /\ guards = <<>>
    /\ cpsr' = enable_interrupts(cpsr).cpsr
    /\ last' = Op("enable_interrupts", None, Some(enable_interrupts(cpsr).ret))
    /\ UNCHANGED <<guards, unlocked>>

DisableInterrupts ==
    /\ guards = <<>>
    /\ cpsr' = disable_interrupts(cpsr).cpsr
    /\ last' = Op("disable_interrupts", None, Some(disable_interrupts(cpsr).ret))
    /\ UNCHANGED <<guards, unlocked>>

LockNext ==
    \/ Lock
    \/ Drop
    \/ EnableInterrupts
    \/ DisableInterrupts

LockSpec == LockInit /\ [][LockNext]_vars

\* the kernel once create_task has made task 0 and switch() has dispatched it
TrapInit ==
    \E len \in CodeLens :
        LET unused == [i \in 0..(PAGE_TABLE_SIZE - 1) |-> FALSE]
            h == Unwrap(try_new(unused, Some(0)))
            task == [EmptyTask(0) EXCEPT
                        !.page = h,
                        !.state = Running,
                        !.context = [sp |-> PageEnd(h), pc |-> PageStart(h)],
                        !.allocator = InitAllocator(len, PageEnd(h) - STACK_GUARD)]
        IN /\ tasks = [i \in 0..(MAX_TASKS - 1) |-> IF i = 0 THEN task ELSE EmptyTask(i)]
           /\ current_index = Some(0)
           /\ LEVEL2_PAGE_TABLE =
                  register([i \in 0..(PAGE_TABLE_SIZE - 1) |-> L2_FAULT_PAGE_TABLE_ENTRY], h)
           /\ USED_PAGES = try_new_used(unused)
           /\ SYS_CLOCK = BootTicks
           /\ mode = "user"
           /\ creates = 1
           /\ dispatched = Some(0)
           /\ held = {}
           /\ unregisters = 0
           /\ before_register = None
           /\ cpsr = set_irq_mask(SvcMode)
           /\ guards = <<>>
           /\ trap = None
           /\ tick_log = BootLog(BootTicks)
           /\ I2C = NewI2C
           /\ INTERRUPT_HANDLERS = BootHandlers
           /\ TIMERS = BootTimers
           /\ irq_log = NoIrq
           /\ registered = BootRegistered
           /\ ALLOCATOR = BootAllocator
           /\ blocks = <<>>
           /\ vec = NewVec
           /\ waits = NoWaits
           /\ last = Op("switch", Some(0),
                        Some([was |-> "Ready", via |-> "switch_context"]))

\* task 0 traps with every frame of TrapFrames
TrapNext ==
    \/ Switch
    \/ \E frame \in TrapFrames : Svc(frame)
    \/ \E status \in I2cInterrupts : I2cIrq(status)
    \/ I2cWriteReturn

TrapSpec == TrapInit /\ [][TrapNext]_vars

\* swi_handler as a function of the frame and the scheduler: it is entered
\* with a Running task, and also where current() finds none
ArmFrames ==
    {f \in TrapFrames :
        /\ f.r0 = (IF f.r12 = 7 THEN 0 ELSE 1155559424)
        /\ f.r1 = 4
        /\ f.r2 \in {0, 8}
        /\ f.r3 = 0}

SwiAnywhere(frame) == mode \in {"user", "kernel"} /\ swi_handler(frame)

ArmNext ==
    \/ \E len \in CodeLens : CreateTask(len, MaxArmTasks)
    \/ Switch
    \/ \E frame \in ArmFrames : SwiAnywhere(frame)
    \/ \E status \in I2cInterrupts : I2cIrq(status)
    \/ I2cWriteReturn

ArmSpec == Init /\ [][ArmNext]_vars

\* the kernel booting a few tasks that take turns: each one yields, with or
\* without a deadline, or exits
RoundFrames ==
    {f \in TrapFrames :
        /\ f.r12 \in {0, 1}
        /\ f.r0 = 2000
        /\ f.r1 = 21
        /\ f.r12 = 0 => f.r2 = 0
        /\ f.r3 = 0}

RoundNext ==
    \/ \E len \in CodeLens : CreateTask(len, MaxRoundTasks)
    \/ Switch
    \/ \E frame \in RoundFrames : Svc(frame)

RoundSpec == Init /\ [][RoundNext]_vars

\* ------------------------------------- the scheduler of src/internals/tasks.rs
\* The first scheduler of the repository. Its Task has no allocator, so that
\* field of a task keeps its initial value here.
\* Task::executable: Ready, Stored and every Waiting task, due or not
legacy_executable(t) == t.state.tag \in {"Ready", "Stored", "Waiting"}

\* the loop of Scheduler::next_task
RECURSIVE legacy_next_task_loop(_, _, _)
legacy_next_task_loop(ts, index, initial_index) ==
    IF legacy_executable(ts[index]) THEN Some(index)
    ELSE LET next == (index + 1) % MAX_TASKS IN
         IF next = initial_index THEN None
         ELSE legacy_next_task_loop(ts, next, initial_index)

\* Scheduler::next_task: the slot chosen
legacy_next_task(ts, ci) ==
    LET initial_index == IF IsSome(ci) THEN Unwrap(ci) ELSE 0 IN
    legacy_next_task_loop(ts, initial_index, initial_index)

\* Scheduler::next_task: the task table afterwards, the chosen task promoted
\* to Stored if it was Waiting and millis() >= until
legacy_next_task_tasks(ts, ci, now) ==
    LET n == legacy_next_task(ts, ci) IN
    IF n = None THEN ts
    ELSE LET t == ts[Unwrap(n)] IN
         IF t.state.tag = "Waiting" /\ now >= t.state.until
         THEN [ts EXCEPT ![Unwrap(n)].state = Stored]
         ELSE ts

\* the entry points of the tasks
EntryPoints == {64}

\* Scheduler::create_task
LegacyCreateTask(entry_point) ==
    /\ mode = "kernel"
    /\ creates < MaxLegacyTasks
    /\ creates' = creates + 1
    /\ LET slot == task_with_state(tasks, current_index, Terminated)
           page == IF slot = None THEN None
                   ELSE try_new(USED_PAGES, Some(tasks[Unwrap(slot)].id))
       IN IF slot = None \/ page = None
          THEN /\ last' = Op("create_task", None, None)
               /\ UNCHANGED <<tasks, USED_PAGES>>
          ELSE LET task_id == tasks[Unwrap(slot)].id
                   h == Unwrap(page)
               IN /\ USED_PAGES' = try_new_used(USED_PAGES)
                  /\ tasks' = [tasks EXCEPT ![task_id] =
                         [@ EXCEPT !.page = h,
                                   !.state = Ready,
                                   !.context = [sp |-> PageEnd(h), pc |-> entry_point]]]
                  /\ last' = Op("create_task", None, Some(task_id))
    /\ UNCHANGED <<current_index, LEVEL2_PAGE_TABLE, SYS_CLOCK, mode, dispatched,
                   harness, trap, intc, library>>

\* one iteration of kernel_loop: Scheduler::switch. The task next_task
\* returns becomes the current one; it is dispatched if it is Ready or Stored,
\* and in any other state switch() returns with nothing dispatched.
LegacySwitch ==
    /\ mode = "kernel"
    /\ LET n == legacy_next_task(tasks, current_index)
           ts == legacy_next_task_tasks(tasks, current_index, millis)
       IN IF n = None
          THEN /\ last' = Op("switch", None, None)
               /\ UNCHANGED <<tasks, current_index, LEVEL2_PAGE_TABLE, mode,
                              dispatched>>
          ELSE LET next_task_id == ts[Unwrap(n)].id
                   task == ts[next_task_id]
               IN /\ current_index' = Some(next_task_id)
                  /\ IF task.state.tag \in {"Ready", "Stored"}
                     THEN /\ tasks' = [ts EXCEPT ![next_task_id].state = Running]
                          /\ LEVEL2_PAGE_TABLE' = register(LEVEL2_PAGE_TABLE, task.page)
                          /\ mode' = "user"
                          /\ dispatched' = Some(next_task_id)
                          /\ last' = Op("switch", Some(next_task_id),
                                      Some([was |-> tasks[next_task_id].state.tag,
                                            via |-> IF task.state = Ready
                                                    THEN "switch_context"
                                                    ELSE "restore_context"]))
                     ELSE /\ tasks' = ts
                          /\ last' = Op("switch", None, None)
                          /\ UNCHANGED <<LEVEL2_PAGE_TABLE, mode, dispatched>>
    /\ UNCHANGED <<USED_PAGES, SYS_CLOCK, creates, harness, trap, intc, library>>

\* the frames of the two syscalls of this kernel, and one of no syscall
LegacyFrames ==
    {f \in TrapFrames :
        /\ f.r12 \in {0, 1, 2}
        /\ f.r0 = 2000
        /\ f.r1 = 21
        /\ f.r12 /= 1 => f.r2 = 0
        /\ f.r3 = 0}

\* swi_handler: Exit and Yield; any other number returns false and the task
\* goes on
legacy_swi_handler(frame) ==
    /\ trap' = Some([frame |-> frame, decoded |-> None])
    /\ UNCHANGED <<intc, library>>
    /\ CASE frame.r12 = 0 ->
               ExitArm("Exit") /\ UNCHANGED tick_log
         [] frame.r12 = 1 ->
               /\ YieldArm("Yield", frame.r0, frame.r1, DecodeUntil(frame.r2), <<>>)
               /\ UNCHANGED <<SYS_CLOCK, tick_log>>
         [] OTHER ->
               /\ last' = Op("invalid", current(tasks, current_index), Some(FALSE))
               /\ UNCHANGED <<tasks, current_index, LEVEL2_PAGE_TABLE, USED_PAGES,
                              SYS_CLOCK, mode, creates, dispatched, harness>>

LegacySvc(frame) == mode = "user" /\ legacy_swi_handler(frame)

\* SysClock::increment, from the timer IRQ: one more tick, and every tenth
\* tick yield_task
legacy_increment(sp, pc) ==
    /\ SYS_CLOCK' = SYS_CLOCK + 1
    /\ IF SYS_CLOCK' % YIELD_PERIOD = 0
       THEN yield_task(sp, pc, <<>>)
       ELSE /\ last' = Op("tick", None, None)
            /\ UNCHANGED <<tasks, current_index, LEVEL2_PAGE_TABLE, USED_PAGES,
                           mode, creates, dispatched, held, unregisters,
                           before_register, cpsr, guards, I2C>>
    /\ UNCHANGED <<tick_log, trap, intc, library>>

LegacyTick(sp, pc) == SYS_CLOCK < MaxTicks /\ legacy_increment(sp, pc)

LegacyNext ==
    \/ \E entry_point \in EntryPoints : LegacyCreateTask(entry_point)
    \/ LegacySwitch
    \/ \E frame \in LegacyFrames : LegacySvc(frame)
    \/ \E sp \in SavedSp, pc \in SavedPc : LegacyTick(sp, pc)

LegacySpec == Init /\ [][LegacyNext]_vars

\* ------------------------------------------------------ the task allocators
\* programs whose end is and is not a multiple of 4, and the frames of their
\* Alloc syscalls
AllocCodeLens == {100, 101}
AllocSizes == {64, 2000, 4096}
AllocFrames ==
    [r0 : AllocSizes, r1 : ValidAligns, r2 : {0}, r3 : {0}, r12 : {7}]

AllocNext ==
    \/ \E len \in AllocCodeLens : CreateTask(len, MaxAllocTasks)
    \/ Switch
    \/ \E frame \in AllocFrames : Svc(frame)

AllocSpec == Init /\ [][AllocNext]_vars

\* ------------------------------------------------------ interrupt dispatch
\* the handlers the kernel has, and those a timer can be registered with
Handlers == {"noop", "irq_handler"}
TimerHandlers == {"interrupt_handler"}

\* the values read from SIR_IRQ: known and unknown numbers, and a known one
\* under a set bit 7
SirIrqs == {0, I2C2INT, TINT2, TINT3, TINT2 + HANDLER_SLOTS}

\* interrupts::register_handler, called by kernel code
RegisterHandler(handler, interrupt) ==
    /\ mode = "kernel"
    /\ INTERRUPT_HANDLERS' = register_handler(INTERRUPT_HANDLERS, handler, interrupt)
    /\ registered' = [registered EXCEPT ![interrupt] = Some(handler)]
    /\ last' = Op("register_handler", None, None)
    /\ UNCHANGED <<tasks, current_index, LEVEL2_PAGE_TABLE, USED_PAGES, SYS_CLOCK,
                   mode, creates, dispatched, harness, trap, TIMERS, irq_log,
                   library>>

\* timer::register_timer: Timer::new registers handle_timer_irq for the
\* interrupt of the timer, then the timer is stored
RegisterTimer(dm_timer, reload, handler) ==
    /\ mode = "kernel"
    /\ INTERRUPT_HANDLERS' = register_handler(INTERRUPT_HANDLERS, "handle_timer_irq",
                                              DmTimer_interrupt(dm_timer))
    /\ registered' = [registered EXCEPT ![DmTimer_interrupt(dm_timer)] =
                          Some("handle_timer_irq")]
    /\ TIMERS' = [TIMERS EXCEPT ![dm_timer] = Some(Timer(dm_timer, reload, handler))]
    /\ last' = Op("register_timer", None, None)
    /\ UNCHANGED <<tasks, current_index, LEVEL2_PAGE_TABLE, USED_PAGES, SYS_CLOCK,
                   mode, creates, dispatched, harness, trap, irq_log, library>>

\* handle_interrupt, entered from the IRQ vector with SIR_IRQ reading
\* `sir_irq`: current, execute, clear. The handler of a timer runs
\* handle_timer_irq; the tick handler of sysclock may call yield_task or
\* panic, which do not return, and then clear is not reached. `status` is the
\* bit the I2C module shows its handler, and sp and pc are the interrupted
\* context.
HandleInterrupt(sir_irq, sp, pc, status) ==
    LET interrupt == current_interrupt(sir_irq)
        called == execute(INTERRUPT_HANDLERS, interrupt)
        handler == IF called = <<>> THEN "none" ELSE called[1].arg
        timer_events == IF handler = "handle_timer_irq"
                        THEN handle_timer_irq(TIMERS, sir_irq)
                        ELSE <<>>
        ticks == \E k \in 1..Len(timer_events) :
                     timer_events[k] = Event("handler", "interrupt_handler")
        logged(returned) ==
            [count |-> irq_log.count + 1,
             sir_irq |-> sir_irq,
             events |-> called \o timer_events \o (IF returned THEN clear ELSE <<>>)]
    IN /\ mode /= "halted"
       /\ irq_log.count < MaxIrqs
       /\ IF ticks
          THEN /\ interrupt_handler(sp, pc)
               /\ irq_log' = logged(last'.op = "tick")
          ELSE /\ I2C' = IF handler = "irq_handler" THEN irq_handler(I2C, status)
                            ELSE I2C
               /\ last' = Op("handle_interrupt", None, None)
               /\ irq_log' = logged(TRUE)
               /\ UNCHANGED <<tasks, current_index, LEVEL2_PAGE_TABLE, USED_PAGES,
                              SYS_CLOCK, mode, creates, dispatched, held,
                              unregisters, before_register, cpsr, guards, tick_log,
                              trap>>
       /\ UNCHANGED <<INTERRUPT_HANDLERS, TIMERS, registered, library>>

\* the kernel from the statics as constructed: handlers and timers are
\* registered, a task is created and dispatched, interrupts are taken
IrqInit ==
    /\ tasks = [i \in 0..(MAX_TASKS - 1) |-> EmptyTask(i)]
    /\ current_index = None
    /\ LEVEL2_PAGE_TABLE = [i \in 0..(PAGE_TABLE_SIZE - 1) |-> L2_FAULT_PAGE_TABLE_ENTRY]
    /\ USED_PAGES = [i \in 0..(PAGE_TABLE_SIZE - 1) |-> FALSE]
    /\ SYS_CLOCK = BootTicks
    /\ mode = "kernel"
    /\ creates = 0
    /\ dispatched = None
    /\ held = {}
    /\ unregisters = 0
    /\ before_register = None
    /\ cpsr = set_irq_mask(SvcMode)
    /\ guards = <<>>
    /\ trap = None
    /\ tick_log = BootLog(BootTicks)
    /\ I2C = NewI2C
    /\ INTERRUPT_HANDLERS = NoHandlers
    /\ TIMERS = NoTimers
    /\ irq_log = NoIrq
    /\ registered = NoneRegistered
    /\ ALLOCATOR = BootAllocator
    /\ blocks = <<>>
    /\ vec = NewVec
    /\ waits = NoWaits
    /\ last = [op |-> "init", task |-> None, ret |-> None, live |-> <<>>,
               value |-> None]

IrqNext ==
    \/ \E handler \in Handlers, interrupt \in {I2C2INT, TINT2} :
           RegisterHandler(handler, interrupt)
    \/ \E dm_timer \in {"Timer2", "Timer3"}, handler \in TimerHandlers :
           RegisterTimer(dm_timer, TICK_RELOAD, handler)
    \/ \E len \in CodeLens : CreateTask(len, MaxIrqTasks)
    \/ Switch
    \/ \E sir_irq \in SirIrqs, sp \in SavedSp, pc \in SavedPc, status \in I2cInterrupts :
           HandleInterrupt(sir_irq, sp, pc, status)

IrqSpec == IrqInit /\ [][IrqNext]_vars

\* ------------------------------------------------------- the kernel heap
\* the layouts kernel code asks for
HeapSizes == {1, 4, 24}
HeapAligns == {1, 4, 8}

\* the variables the heap and the vector leave alone
unallocated == <<tasks, current_index, LEVEL2_PAGE_TABLE, USED_PAGES, SYS_CLOCK,
                 creates, dispatched, harness, trap, intc, waits>>

\* heap::alloc, called by kernel code
HeapAlloc(layout) ==
    /\ mode = "kernel"
    /\ Len(blocks) < MaxHeapAllocs
    /\ ALLOCATOR' = legacy_alloc(ALLOCATOR, layout)
    /\ blocks' = Allocated(blocks, legacy_alloc_ptr(ALLOCATOR, layout), layout)
    /\ last' = [Op("alloc", None, None) EXCEPT
                    !.value = Some(legacy_alloc_ptr(ALLOCATOR, layout))]
    /\ UNCHANGED <<unallocated, mode, vec>>

\* heap::dealloc, called by kernel code with a block it was given:
\* BumpAllocator::dealloc does nothing
HeapDealloc(k) ==
    /\ mode = "kernel"
    /\ k \in 1..Len(blocks)
    /\ last' = Op("dealloc", None, None)
    /\ UNCHANGED <<unallocated, mode, library>>

\* the kernel once heap::initialize has run, for each heap_start
HeapInit ==
    /\ tasks = [i \in 0..(MAX_TASKS - 1) |-> EmptyTask(i)]
    /\ current_index = None
    /\ LEVEL2_PAGE_TABLE = [i \in 0..(PAGE_TABLE_SIZE - 1) |-> L2_FAULT_PAGE_TABLE_ENTRY]
    /\ USED_PAGES = [i \in 0..(PAGE_TABLE_SIZE - 1) |-> FALSE]
    /\ SYS_CLOCK = BootTicks
    /\ mode = "kernel"
    /\ creates = 0
    /\ dispatched = None
    /\ held = {}
    /\ unregisters = 0
    /\ before_register = None
    /\ cpsr = set_irq_mask(SvcMode)
    /\ guards = <<>>
    /\ trap = None
    /\ tick_log = BootLog(BootTicks)
    /\ I2C = NewI2C
    /\ INTERRUPT_HANDLERS = NoHandlers
    /\ TIMERS = NoTimers
    /\ irq_log = NoIrq
    /\ registered = NoneRegistered
    /\ \E start \in HeapStarts : ALLOCATOR = HeapAllocator(start)
    /\ blocks = <<>>
    /\ vec = NewVec
    /\ waits = NoWaits
    /\ last = [op |-> "init", task |-> None, ret |-> None, live |-> <<>>,
               value |-> None]

HeapNext ==
    \/ \E size \in HeapSizes, align \in HeapAligns :
           HeapAlloc([size |-> size, align |-> align])
    \/ \E k \in 1..MaxHeapAllocs : HeapDealloc(k)

HeapSpec == HeapInit /\ [][HeapNext]_vars

\* ---------------------------------------------------------------- the Vec
\* the bytes pushed
Bytes == {1, 2, 3}

\* Vec::push: a full buffer grows first, with a buffer from the heap, and
\* grow panics when there is none
VecPush(val) ==
    /\ mode = "kernel"
    /\ vec.len < MaxVecLen
    /\ IF vec.len = vec.cap
       THEN LET new_layout == ArrayLayout(new_capacity(vec))
                new_ptr == legacy_alloc_ptr(ALLOCATOR, new_layout)
            IN /\ ALLOCATOR' = legacy_alloc(ALLOCATOR, new_layout)
               /\ blocks' = Allocated(blocks, new_ptr, new_layout)
               /\ IF new_ptr = NULL
                  THEN /\ mode' = "halted"
                       /\ last' = Op("panic", None, Some("explicit panic"))
                       /\ UNCHANGED vec
                  ELSE /\ vec' = push(grow(vec), val)
                       /\ last' = Op("push", None, None)
                       /\ UNCHANGED mode
       ELSE /\ vec' = push(vec, val)
            /\ last' = Op("push", None, None)
            /\ UNCHANGED <<ALLOCATOR, blocks, mode>>
    /\ UNCHANGED unallocated

\* Vec::remove
VecRemove(index) ==
    /\ mode = "kernel"
    /\ vec' \in remove(vec, index)
    /\ last' = [Op("remove", None, None) EXCEPT !.value = Some(remove_value(vec, index))]
    /\ UNCHANGED <<unallocated, mode, ALLOCATOR, blocks>>

\* Vec::pop: remove(self.len - 1). On the empty vector the subtraction
\* overflows: a build with overflow checks panics, one without them calls
\* remove(usize::MAX), which returns None.
VecPop ==
    /\ mode = "kernel"
    /\ IF vec.len = 0
       THEN \/ /\ mode' = "halted"
               /\ last' = Op("panic", None, Some("attempt to subtract with overflow"))
               /\ UNCHANGED vec
            \/ /\ last' = [Op("pop", None, None) EXCEPT !.value = Some(None)]
               /\ UNCHANGED <<vec, mode>>
       ELSE /\ vec' \in remove(vec, vec.len - 1)
            /\ last' = [Op("pop", None, None) EXCEPT
                            !.value = Some(remove_value(vec, vec.len - 1))]
            /\ UNCHANGED mode
    /\ UNCHANGED <<unallocated, ALLOCATOR, blocks>>

VecNext ==
    \/ \E val \in Bytes : VecPush(val)
    \/ \E index \in 0..MaxVecLen : VecRemove(index)
    \/ VecPop

VecSpec == HeapInit /\ [][VecNext]_vars

\* ------------------------------------------------- the page-handle harness
\* the variables of the scheduler, which the harnesses leave alone
kernel == <<tasks, current_index, SYS_CLOCK, mode, creates, dispatched, cpsr, guards,
           trap, tick_log, I2C, intc>>

\* the used pages are 0..n-1 for some n: no page below a used one is free
PrefixFull(used) ==
    LET n == Cardinality({i \in 0..(PAGE_TABLE_SIZE - 1) : used[i]}) IN
    {i \in 0..(PAGE_TABLE_SIZE - 1) : used[i]} = 0..(n - 1)

\* a caller takes a page: L2SmallPageTableEntry::try_new(asid); the handle
\* returned is kept in held, and last records whether there was one
TryNew(asid, max_held) ==
    /\ Cardinality(held) < max_held
    /\ LET page == try_new(USED_PAGES, asid) IN
       /\ USED_PAGES' = try_new_used(USED_PAGES)
       /\ held' = IF page = None THEN held ELSE held \cup {Unwrap(page)}
       /\ last' = Op("try_new", None, IF page = None THEN None ELSE Some(TRUE))
    /\ before_register' = None
    /\ UNCHANGED <<LEVEL2_PAGE_TABLE, unregisters, kernel, library>>

\* a caller registers a handle it holds: L2SmallPageTableEntry::register
Register(h) ==
    /\ h \in held
    /\ before_register' = Some([l2 |-> LEVEL2_PAGE_TABLE, used |-> USED_PAGES])
    /\ LEVEL2_PAGE_TABLE' = register(LEVEL2_PAGE_TABLE, h)
    /\ last' = Op("register", None, Some(h))
    /\ UNCHANGED <<USED_PAGES, held, unregisters, kernel, library>>

\* a caller unregisters a handle it holds: L2SmallPageTableEntry::unregister;
\* unregister takes &self, so the caller still holds the handle afterwards
Unregister(h) ==
    /\ h \in held
    /\ LEVEL2_PAGE_TABLE' = unregister_l2(LEVEL2_PAGE_TABLE, h)
    /\ USED_PAGES' = unregister_used(USED_PAGES, h)
    /\ before_register' = IF last.op = "register" /\ last.ret = Some(h)
                          THEN before_register ELSE None
    /\ last' = Op("unregister", None, Some(h))
    /\ UNCHANGED <<held, unregisters, kernel, library>>

\* a caller unregisters one of its handles once and drops it, one handle at a
\* time: the page it freed is taken again before another one is unregistered
UnregisterOnce ==
    /\ unregisters < MaxUnregisters
    /\ PrefixFull(USED_PAGES)
    /\ unregisters' = unregisters + 1
    /\ \E h \in held :
        /\ LEVEL2_PAGE_TABLE' = unregister_l2(LEVEL2_PAGE_TABLE, h)
        /\ USED_PAGES' = unregister_used(USED_PAGES, h)
        /\ held' = held \ {h}
        /\ last' = Op("unregister", None, Some(h))
    /\ UNCHANGED <<before_register, kernel, library>>

\* pages are taken until the table is full and given back one at a time
PageNext ==
    \/ TryNew(None, PAGE_TABLE_SIZE + 1)
    \/ UnregisterOnce

PageSpec == Init /\ [][PageNext]_vars

\* L2SmallPageTableEntry::try_new called until it returns None: the handles
\* the calls returned and the marks they left
try_new_all(used, handles, asid) ==
    LET free == {i \in 0..(PAGE_TABLE_SIZE - 1) : ~used[i]}
        \* the table the call that finds page i sees: the free pages below i
        \* were marked by the calls before it
        at(i) == [j \in 0..(PAGE_TABLE_SIZE - 1) |-> used[j] \/ (j \in free /\ j < i)]
    IN [used |-> [j \in 0..(PAGE_TABLE_SIZE - 1) |-> used[j] \/ j \in free],
        handles |-> handles \cup {Unwrap(try_new(at(i), asid)) : i \in free}]

\* a caller takes every page that is free: it calls try_new until the call
\* returns None
TryNewAll(asid) ==
    /\ mode = "kernel"
    /\ IsSome(FirstFree(USED_PAGES))
    /\ LET all == try_new_all(USED_PAGES, held, asid) IN
       /\ USED_PAGES' = all.used
       /\ held' = all.handles
    /\ last' = Op("try_new_all", None, None)
    /\ before_register' = None
    /\ UNCHANGED <<LEVEL2_PAGE_TABLE, unregisters, kernel, library>>

\* the kernel creating tasks while another caller of try_new takes the pages
\* that are left
ExhaustNext ==
    \/ \E len \in CodeLens : CreateTask(len, MaxExhaustCreates)
    \/ Switch
    \/ SysExit
    \/ TryNewAll(None)

ExhaustSpec == Init /\ [][ExhaustNext]_vars

\* a caller holding few handles uses them in any order
HandleNext ==
    \/ \E asid \in Asids : TryNew(asid, MaxHeld)
    \/ \E h \in held : Register(h)
    \/ \E h \in held : Unregister(h)

HandleSpec == Init /\ [][HandleNext]_vars

\* ======================================================== the properties
Slots == 0..(MAX_TASKS - 1)
Pages == 0..(PAGE_TABLE_SIZE - 1)
RunningTasks == {i \in Slots : tasks[i].state = Running}
NonTerminated(ts) == {i \in Slots : ts[i].state /= Terminated}

\* the syscalls after which swi_handler resumes the caller
ValueOps == {"Millis", "GpioRead", "GpioWrite", "I2cWrite", "Alloc", "Dealloc"}
\* the operations by which the running task leaves the CPU
DepartOps == {"Exit", "Panic", "Yield", "tick_yield"}

\* the frame a non-fault descriptor refers to
DescriptorFrame(d) == ((d - (d % PAGE_SIZE)) - BASE_ADDRESS) \div PAGE_SIZE

\* some L2 entry holds the descriptor of the page of task t
HasRegisteredPage(t) ==
    \E s \in Pages : ~IsFault(LEVEL2_PAGE_TABLE[s]) /\ LEVEL2_PAGE_TABLE[s] = Descriptor(t.page)

\* C1: in every reachable state at most one task slot has state Running.
C1_AtMostOneRunning == Cardinality(RunningTasks) <= 1

\* a task runs while another one has yielded and a third one has exited
C1_Witness ==
    \E i, j, k \in Slots :
        /\ tasks[i].state = Running
        /\ tasks[j].state = Stored
        /\ tasks[k].state = Terminated /\ tasks[k].page /= EmptyPage

\* C2 as stated: a task is Terminated if and only if none of its pages is
\* registered in the L2 table.
C2_TerminatedIffNoPage ==
    \A i \in Slots : (tasks[i].state = Terminated) <=> ~HasRegisteredPage(tasks[i])

\* C2 as amended: the page of the Running task is registered, and every
\* non-fault L2 entry is the page descriptor of a task that is not Terminated;
\* a Ready, Stored or Waiting task need not have its page registered.
C2_RegisteredPageIsLive ==
    /\ \A i \in Slots : tasks[i].state = Running =>
           LEVEL2_PAGE_TABLE[L2Slot(tasks[i].page)] = Descriptor(tasks[i].page)
    /\ \A s \in Pages : ~IsFault(LEVEL2_PAGE_TABLE[s]) =>
           \E i \in Slots : /\ tasks[i].state /= Terminated
                           /\ L2Slot(tasks[i].page) = s
                           /\ Descriptor(tasks[i].page) = LEVEL2_PAGE_TABLE[s]

\* a task has exited and left no page registered while another task is alive
C2_Witness ==
    /\ last.op = "Exit" /\ IsSome(last.task)
    /\ \A s \in Pages : IsFault(LEVEL2_PAGE_TABLE[s])
    /\ NonTerminated(tasks) /= {}

\* C3 as stated: USED_PAGES[i] is true if and only if L2 entry i is a
\* non-fault small-page descriptor.
C3_UsedIffEntry ==
    \A i \in Pages : USED_PAGES[i] <=> IsSmallPage(LEVEL2_PAGE_TABLE[i])

\* C3 as amended: USED_PAGES[i] is true if and only if frame i is the frame of
\* the page of a task that is not Terminated, and every non-fault L2 entry is
\* a small-page descriptor of a frame whose USED_PAGES bit is set.
C3_UsedIffOwned ==
    /\ {i \in Pages : USED_PAGES[i]} =
           {FrameIndex(tasks[t].page) :
               t \in {u \in NonTerminated(tasks) : tasks[u].page /= EmptyPage}}
    /\ \A s \in {e \in Pages : ~IsFault(LEVEL2_PAGE_TABLE[e])} :
           /\ IsSmallPage(LEVEL2_PAGE_TABLE[s])
           /\ DescriptorFrame(LEVEL2_PAGE_TABLE[s]) \in Pages
           /\ USED_PAGES[DescriptorFrame(LEVEL2_PAGE_TABLE[s])]

\* pages were taken, one was given back by a task that exited, and a page of
\* a higher index is still in use
C3_Witness ==
    /\ \E i, j \in Pages : i < j /\ ~USED_PAGES[i] /\ USED_PAGES[j]
    /\ \E s \in Pages : ~IsFault(LEVEL2_PAGE_TABLE[s])

\* C4: current_index is None or lies in [0, MAX_TASKS), and it is None as
\* long as switch has not dispatched a task.
C4_CurrentIndexInRange ==
    /\ current_index = None
         \/ (Len(current_index) = 1 /\ Unwrap(current_index) \in Slots)
    /\ dispatched = None => current_index = None

\* the task in the last slot has left the CPU and cycle has wrapped around
C4_Witness ==
    /\ last.op \in DepartOps
    /\ last.task = Some(MAX_TASKS - 1)
    /\ current_index = Some(0)

\* C5 as stated: whenever current_index is set it is the index of the task
\* that switch dispatched last.
C5_CurrentIsLastDispatched == IsSome(current_index) => current_index = dispatched

\* C5 as amended: while a task is Running, current_index is the index of that
\* task, which is the one dispatched last; once that task has exited or
\* yielded, current_index is one slot further (mod MAX_TASKS).
C5_CurrentFollowsDispatch ==
    /\ \A i \in Slots : tasks[i].state = Running =>
           current_index = Some(i) /\ dispatched = Some(i)
    /\ (last.op \in DepartOps /\ IsSome(last.task)) =>
           /\ last.task = dispatched
           /\ current_index = Some((Unwrap(dispatched) + 1) % MAX_TASKS)

\* a task has yielded and current_index has moved past it
C5_Witness ==
    /\ last.op = "Yield" /\ IsSome(last.task)
    /\ tasks[Unwrap(last.task)].state = Stored
    /\ current_index /= dispatched

\* C6 as stated: register() followed by unregister() on a handle leaves both
\* tables as they were before register().
C6_RoundTripRestores ==
    (last.op = "unregister" /\ IsSome(before_register)) =>
        /\ LEVEL2_PAGE_TABLE = Unwrap(before_register).l2
        /\ USED_PAGES = Unwrap(before_register).used

\* C6 as amended: register() followed by unregister() on a handle leaves the
\* L2 entry of the handle fault and the USED_PAGES bit of its frame false, and
\* every other L2 entry and USED_PAGES bit as before register().
C6_RoundTripFrees ==
    (last.op = "unregister" /\ IsSome(before_register)) =>
        LET h == Unwrap(last.ret)
            before == Unwrap(before_register)
        IN /\ LEVEL2_PAGE_TABLE =
                  [before.l2 EXCEPT ![L2Slot(h)] = L2_FAULT_PAGE_TABLE_ENTRY]
           /\ USED_PAGES = [before.used EXCEPT ![FrameIndex(h)] = FALSE]

\* an allocated handle was registered over the entry of another handle and
\* then unregistered
C6_Witness ==
    /\ last.op = "unregister" /\ IsSome(before_register)
    /\ Unwrap(before_register).used[FrameIndex(Unwrap(last.ret))]
    /\ ~IsFault(Unwrap(before_register).l2[L2Slot(Unwrap(last.ret))])
    /\ ~USED_PAGES[FrameIndex(Unwrap(last.ret))]

\* C7: from its entry to its return, a syscall that resumes its caller
\* (Millis, GpioRead, GpioWrite, I2cWrite, Alloc, Dealloc) leaves
\* current_index at the task dispatched last and the state of every task
\* unchanged: that task stays Running, keeps the CPU and gets exit-flag false.
C7_ValueSyscallKeepsTask ==
    [][(mode = "i2c" \/ last'.op \in ValueOps) =>
          /\ IsSome(dispatched) /\ current_index = dispatched
          /\ current_index' = current_index
          /\ dispatched' = dispatched
          /\ \A i \in Slots : tasks'[i].state = tasks[i].state
          /\ tasks'[Unwrap(dispatched)].state = Running
          /\ mode' \in {"user", "i2c"}
          /\ mode' = "user" => last'.ret = Some(FALSE)]_vars

\* C8: Exit and Panic are issued by the Running task; it becomes Terminated,
\* its page is unregistered and the USED_PAGES bit of its frame cleared, no
\* other task changes state, there is exactly one non-Terminated task fewer,
\* and a create_task would find the slot.
C8_ExitTerminatesOne ==
    [][last'.op \in {"Exit", "Panic"} =>
          /\ IsSome(last'.task)
          /\ LET k == Unwrap(last'.task) IN
             /\ tasks[k].state = Running
             /\ tasks'[k].state = Terminated
             /\ \A j \in Slots \ {k} : tasks'[j].state = tasks[j].state
             /\ Cardinality(NonTerminated(tasks')) = Cardinality(NonTerminated(tasks)) - 1
             /\ USED_PAGES[FrameIndex(tasks[k].page)]
             /\ USED_PAGES' = [USED_PAGES EXCEPT ![FrameIndex(tasks[k].page)] = FALSE]
             /\ IsFault(LEVEL2_PAGE_TABLE'[L2Slot(tasks[k].page)])
             /\ \A s \in Pages : IsFault(LEVEL2_PAGE_TABLE'[s])
                                  \/ LEVEL2_PAGE_TABLE'[s] /= Descriptor(tasks[k].page)
             /\ IsSome(task_with_state(tasks', current_index', Terminated))
             /\ IsSome(FirstFree(USED_PAGES'))]_vars

\* the slot of a task that ran and exited holds a new task
C8_Witness ==
    /\ last.op = "create_task" /\ IsSome(last.ret)
    /\ dispatched = last.ret
    /\ tasks[Unwrap(last.ret)].state = Ready

\* C9: create_task returns Some(id) when a slot is Terminated (a page is then
\* free) and None when all MAX_TASKS slots hold tasks that are not Terminated.
C9_CreateSucceedsIffFreeSlot ==
    [][(last'.op = "create_task" /\ creates' = creates + 1) =>
          /\ (\E i \in Slots : tasks[i].state = Terminated) => IsSome(FirstFree(USED_PAGES))
          /\ IsSome(last'.ret) <=> \E i \in Slots : tasks[i].state = Terminated
          /\ IsSome(last'.ret) =>
                /\ tasks[Unwrap(last'.ret)].state = Terminated
                /\ tasks'[Unwrap(last'.ret)].state = Ready]_vars

\* create_task has failed on a full task table
C9_Witness ==
    /\ last.op = "create_task" /\ last.ret = None
    /\ NonTerminated(tasks) = Slots
    /\ IsSome(dispatched)

\* C10: try_new takes the lowest free page: from the empty table the n-th
\* call returns page n-1, the call on a full table returns None, and the call
\* that follows an unregister returns the page just freed.
C10_LowestFreePage ==
    [][last'.op = "try_new" =>
          IF last'.ret = None
          THEN /\ \A i \in Pages : USED_PAGES[i]
               /\ USED_PAGES' = USED_PAGES
               /\ unregisters = 0 => Cardinality(held) = PAGE_TABLE_SIZE
          ELSE \E i \in Pages :
               /\ ~USED_PAGES[i]
               /\ {j \in Pages : j < i} \subseteq {j \in Pages : USED_PAGES[j]}
               /\ USED_PAGES' = [USED_PAGES EXCEPT ![i] = TRUE]
               /\ \E h \in held' : FrameIndex(h) = i /\ h \notin held
               /\ unregisters = 0 => i = Cardinality(held)
               /\ last.op = "unregister" => i = FrameIndex(Unwrap(last.ret))]_vars

\* the table was filled, a handle was unregistered, its page was taken
\* again and the next call failed
C10_Witness ==
    /\ last.op = "try_new" /\ last.ret = None
    /\ unregisters = 1
    /\ Cardinality(held) = PAGE_TABLE_SIZE

\* the slot at which a scan of the task table starts
ScanStart == IF current_index = None THEN 0 ELSE current_index[1]

\* C11: when switch() runs next_task, a Waiting{until} task with now() < until
\* keeps its state and is not dispatched; one with now() >= until (the
\* boundary until = now() included) that the scan reaches first is promoted to
\* Stored and dispatched; and a Waiting task is dispatched only when
\* now() >= until.
C11_WaitingExecutableWhenDue ==
    [][last'.op = "switch" =>
          \A i \in Slots : tasks[i].state.tag = "Waiting" =>
              /\ SYS_CLOCK < tasks[i].state.until =>
                    /\ tasks'[i].state = tasks[i].state
                    /\ last'.task /= Some(i)
              /\ (SYS_CLOCK >= tasks[i].state.until /\ i = ScanStart) =>
                    /\ last' = Op("switch", Some(i),
                                  Some([was |-> "Waiting", via |-> "restore_context"]))
                    /\ tasks'[i].state = Running
              /\ last'.task = Some(i) =>
                    /\ SYS_CLOCK >= tasks[i].state.until
                    /\ last'.ret = Some([was |-> "Waiting", via |-> "restore_context"])]_vars

\* a task that waited until tick 10 has been dispatched at tick 10
C11_Witness ==
    /\ last.op = "switch" /\ IsSome(last.task)
    /\ last.ret = Some([was |-> "Waiting", via |-> "restore_context"])
    /\ tasks[Unwrap(last.task)].state = Running
    /\ SYS_CLOCK = 10

\* the ticks of tick_log that called yield_task
Yields == {k \in 1..Len(tick_log) : tick_log[k]}

\* C12: each tick increases the tick counter by exactly one, wrapping at 2^32,
\* the yield hook is invoked on exactly the ticks after which counter % 10 = 0,
\* and every 10 consecutive ticks hold exactly one yield.
C12_OneYieldPerTenTicks ==
    [][/\ last'.op \in {"tick", "tick_yield"} =>
             /\ SYS_CLOCK' = u32_wrapping_inc(SYS_CLOCK)
             /\ last'.op = "tick_yield" <=> u32_rem(SYS_CLOCK', YIELD_PERIOD) = 0
       /\ last'.op /= "panic"
       /\ Len(tick_log') = YIELD_PERIOD => Cardinality(Yields') = 1]_vars

\* the operations the timer IRQ records
TickOps == {"tick", "tick_yield"}

\* C13: a timer tick is never taken while swi_handler runs: IRQs stay masked
\* in every syscall arm, so a tick interleaves only with code outside the
\* handlers.
C13_HandlersNotPreempted ==
    [][last'.op \in TickOps => mode /= "i2c"]_vars

\* C14: on every path that yields or reschedules (the tick handler, Yield,
\* Exit, Panic) no Mutex guard is live at the moment the running task leaves
\* the CPU.
C14_NoGuardLiveAtYield ==
    [][(last'.op \in DepartOps /\ IsSome(last'.task)) => last'.live = <<>>]_vars

\* C15: for a LIFO sequence of lock acquisitions and guard drops, IRQs are
\* masked while at least one guard is held, and when the outermost guard is
\* dropped the I bit of the CPSR is what it was before the outermost
\* acquisition, masked or not.
C15_CriticalSectionsNest ==
    [][/\ guards' /= <<>> => irq_masked(cpsr')
       /\ (last'.op = "drop" /\ guards' = <<>>) =>
             irq_masked(cpsr') = irq_masked(Seen[1])]_vars

\* the outermost of nested guards has been dropped where IRQs were unmasked
\* before it was taken
C15_Witness ==
    /\ last.op = "drop"
    /\ guards = <<>>
    /\ ~irq_masked(cpsr)

\* the frame of the trap taken last
Frame == Unwrap(trap).frame

\* C16: for a frame whose r12 is 3 (GpioRead), 4 (GpioWrite) or 5 (I2cWrite)
\* and for every r0, r1, r2, swi_handler does not panic or halt: it returns to
\* the caller with exit-flag false (for I2cWrite, once the transfer is over).
C16_PeripheralSyscallsReturn ==
    [][(mode = "user" /\ Unwrap(trap').frame.r12 \in {3, 4, 5}) =>
          /\ mode' /= "halted"
          /\ last'.op \in {"GpioRead", "GpioWrite", "I2cWrite"}
          /\ last'.ret = Some(FALSE) \/ mode' = "i2c"]_vars

\* C17: a frame whose r12 is not in 0..8 makes swi_handler panic: IRQs are
\* masked, the kernel halts and takes no further step, no task's state and
\* not current_index has changed.
C17_UnknownSyscallIsFatal ==
    [][/\ (mode = "user" /\ Unwrap(trap').frame.r12 \notin 0..8) =>
             /\ last'.op = "panic"
             /\ last'.ret = Some("invalid syscall")
             /\ mode' = "halted"
             /\ irq_masked(cpsr')
             /\ tasks' = tasks
             /\ current_index' = current_index
       /\ mode /= "halted"]_vars

\* the kernel has halted on a trap with syscall number 255
C17_Witness ==
    /\ mode = "halted"
    /\ last.op = "panic"
    /\ last.ret = Some("invalid syscall")
    /\ Frame.r12 = 255
    /\ tasks[0].state = Running

\* the tasks next_task may return: Ready, Stored, or Waiting and due
Eligible(i) ==
    \/ tasks[i].state.tag \in {"Ready", "Stored"}
    \/ tasks[i].state.tag = "Waiting" /\ SYS_CLOCK >= tasks[i].state.until

\* the place of slot i in the circular order that starts at ScanStart
ScanOrder(i) == (i + MAX_TASKS - ScanStart) % MAX_TASKS

\* C18: the task switch() gets from next_task is the first one, in circular
\* order from current_index.unwrap_or(0), that is Ready, Stored or Waiting with
\* now() >= until; it is never Running or Terminated; and there is none
\* exactly when no slot holds such a task.
C18_NextTaskFirstEligible ==
    [][last'.op = "switch" =>
          /\ last'.task = None <=> \A i \in Slots : ~Eligible(i)
          /\ \A i \in Slots : last'.task = Some(i) =>
                /\ Eligible(i)
                /\ tasks[i].state.tag \notin {"Running", "Terminated"}
                /\ \A j \in Slots : Eligible(j) => ScanOrder(i) <= ScanOrder(j)]_vars

\* task 1 has been chosen, from current_index = 1, ahead of the Stored task 0
C18_Witness ==
    /\ last.op = "switch"
    /\ last.task = Some(1)
    /\ tasks[1].state = Running
    /\ tasks[0].state = Stored

\* C19: a switch() that gets no task from next_task leaves the scheduler as it
\* was; one that gets task i sets current_index to i, makes i Running and
\* leaves the other tasks alone, registers the page of i, and hands over with
\* switch_context if i was Ready and with restore_context if i was Stored or
\* a Waiting task next_task promoted to Stored.
C19_SwitchDispatches ==
    [][last'.op = "switch" =>
          IF last'.task = None
          THEN /\ tasks' = tasks
               /\ current_index' = current_index
               /\ LEVEL2_PAGE_TABLE' = LEVEL2_PAGE_TABLE
               /\ mode' = mode
          ELSE LET i == Unwrap(last'.task) IN
               /\ current_index' = Some(i)
               /\ tasks' = [tasks EXCEPT ![i].state = Running]
               /\ LEVEL2_PAGE_TABLE'[L2Slot(tasks[i].page)] = Descriptor(tasks[i].page)
               /\ tasks[i].state.tag \in {"Ready", "Stored", "Waiting"}
               /\ Unwrap(last'.ret).was = tasks[i].state.tag
               /\ Unwrap(last'.ret).via =
                     IF tasks[i].state.tag = "Ready" THEN "switch_context"
                     ELSE "restore_context"]_vars

\* a Stored task has been resumed with restore_context on its own page, which
\* is not the page of another task
C19_Witness ==
    /\ last.op = "switch"
    /\ IsSome(last.task)
    /\ last.ret = Some([was |-> "Stored", via |-> "restore_context"])
    /\ current_index = last.task
    /\ tasks[Unwrap(last.task)].state = Running
    /\ LEVEL2_PAGE_TABLE[0] = Descriptor(tasks[Unwrap(last.task)].page)
    /\ \E j \in Slots : j /= Unwrap(last.task) /\ LEVEL2_PAGE_TABLE[0] /= Descriptor(tasks[j].page)
                          /\ ~IsFault(Descriptor(tasks[j].page))

\* the syscall the decoding table gives for a frame with r12 in 0..8
DecodingTable(f) ==
    CASE f.r12 = 0 -> [tag |-> "Exit"]
      [] f.r12 = 1 -> [tag |-> "Yield", sp |-> f.r0, pc |-> f.r1,
                       until |-> IF f.r2 = 0 THEN None ELSE Some(f.r2)]
      [] f.r12 = 2 -> [tag |-> "Millis"]
      [] f.r12 = 3 -> [tag |-> "GpioRead", pin |-> <<f.r1, f.r0>>]
      [] f.r12 = 4 -> [tag |-> "GpioWrite", pin |-> <<f.r1, f.r0>>, value |-> f.r2 /= 0]
      [] f.r12 = 5 -> [tag |-> "I2cWrite", address |-> f.r0 % 256,
                       data |-> [ptr |-> f.r1, len |-> f.r2]]
      [] f.r12 = 6 -> [tag |-> "Panic"]
      [] f.r12 = 7 -> [tag |-> "Alloc", layout |-> [size |-> f.r0, align |-> f.r1]]
      [] f.r12 = 8 -> [tag |-> "Dealloc", ptr |-> f.r0,
                       layout |-> [size |-> f.r1, align |-> f.r2]]

\* C20: a trap frame with r12 in 0..8 decodes to the syscall variant of the
\* table (0 Exit, 1 Yield{sp = r0, pc = r1, until = None if r2 = 0 else
\* Some(r2)}, 2 Millis, 3 GpioRead{bank = r0, pin = r1}, 4 GpioWrite{bank = r0,
\* pin = r1, value = (r2 /= 0)}, 5 I2cWrite{address = low 8 bits of r0,
\* ptr = r1, len = r2}, 6 Panic, 7 Alloc{size = r0, align = r1},
\* 8 Dealloc{ptr = r0, size = r1, align = r2}), whatever r3 is.
C20_DecodingTable ==
    (IsSome(trap) /\ Frame.r12 \in 0..8) =>
        /\ Unwrap(trap).decoded = Ok(DecodingTable(Frame))
        /\ \A r3 \in R3s : try_into([Frame EXCEPT !.r3 = r3]) = Unwrap(trap).decoded

\* the operations swi_handler records
SyscallOps == ValueOps \cup {"Exit", "Yield", "Panic"}

\* C21: swi_handler returns exit-flag true exactly for Exit (r12 = 0), Yield
\* (1, with and without deadline) and Panic (6), and exit-flag false for
\* Millis, GpioRead, GpioWrite, I2cWrite, Alloc and Dealloc, whether or not a
\* Running task exists.
C21_ExitFlagBySyscall ==
    [][/\ (mode /= "i2c" /\ last'.op \in SyscallOps) =>
             LET n == Unwrap(trap').frame.r12 IN
             /\ n \in {0, 1, 6} => (last'.ret = Some(TRUE) /\ mode' = "kernel")
             /\ n \in {2, 3, 4, 7, 8} => last'.ret = Some(FALSE)
             /\ n = 5 => (last'.ret = None /\ mode' = "i2c")
       /\ (mode = "i2c" /\ last'.op = "I2cWrite") => last'.ret = Some(FALSE)]_vars

\* Exit has returned exit-flag true where no task was Running
C21_Witness ==
    /\ last.op = "Exit"
    /\ last.task = None
    /\ last.ret = Some(TRUE)
    /\ RunningTasks = {}

\* C22: when the Running task issues Yield{sp, pc, until}, its context becomes
\* (sp, pc), its state Stored if until = 0 and Waiting{until} otherwise, no
\* other task changes, and current_index moves on by one modulo MAX_TASKS.
C22_YieldSavesContext ==
    [][(last'.op = "Yield" /\ IsSome(last'.task)) =>
          LET k == Unwrap(last'.task)
              f == Unwrap(trap').frame
          IN /\ tasks[k].state = Running
             /\ current_index = Some(k)
             /\ tasks'[k].context = [sp |-> f.r0, pc |-> f.r1]
             /\ tasks'[k].state = IF f.r2 = 0 THEN Stored ELSE Waiting(f.r2)
             /\ \A j \in Slots \ {k} : tasks'[j] = tasks[j]
             /\ current_index' = Some((k + 1) % MAX_TASKS)]_vars

\* task 0 has yielded with deadline 10 while task 1 is Ready
C22_Witness ==
    /\ last.op = "Yield"
    /\ last.task = Some(0)
    /\ tasks[0].state = Waiting(10)
    /\ tasks[0].context = [sp |-> 2000, pc |-> 21]
    /\ tasks[1].state = Ready
    /\ current_index = Some(1)

\* C23: once boot has created two tasks and none was dispatched, slots 0 and 1
\* are Ready and current_index is None; the switch() taken from there selects
\* slot 0, sets current_index = 0 and sets that task Running.
C23_BootThenFirstSwitch ==
    [][/\ (creates' = 2 /\ dispatched' = None) =>
             /\ tasks'[0].state = Ready
             /\ tasks'[1].state = Ready
             /\ \A i \in Slots \ {0, 1} : tasks'[i].state = Terminated
             /\ current_index' = None
       /\ (creates = 2 /\ dispatched = None /\ last'.op = "switch") =>
             /\ last'.task = Some(0)
             /\ current_index' = Some(0)
             /\ tasks'[0].state = Running
             /\ tasks'[1].state = Ready
             /\ mode' = "user"]_vars

\* the first switch after two creations has just dispatched slot 0
C23_Witness ==
    /\ creates = 2
    /\ last.op = "switch"
    /\ last.ret = Some([was |-> "Ready", via |-> "switch_context"])
    /\ current_index = Some(0)
    /\ tasks[0].state = Running
    /\ tasks[1].state = Ready
    /\ trap = None

\* the Running task has just handed over: it exited, or yielded with no
\* deadline
HandedOver ==
    /\ IsSome(last.task)
    /\ \/ last.op = "Exit"
       \/ last.op = "Yield" /\ Frame.r2 = 0

\* the place of slot i in the circular order that starts one slot after k
OrderAfter(k, i) == (i + MAX_TASKS - ((k + 1) % MAX_TASKS)) % MAX_TASKS

\* C24: after the Running task in slot k yields with no deadline or exits,
\* current_index is (k + 1) mod MAX_TASKS; the next switch() dispatches the
\* first executable task in circular order from slot k + 1, and dispatches k
\* again only if no other task is executable.
C24_RoundRobinHandOver ==
    [][/\ HandedOver' => current_index' = Some((Unwrap(last'.task) + 1) % MAX_TASKS)
       /\ (HandedOver /\ last'.op = "switch") =>
             LET k == Unwrap(last.task) IN
             /\ last'.task = None <=> \A i \in Slots : ~Eligible(i)
             /\ \A i \in Slots : last'.task = Some(i) =>
                   /\ Eligible(i)
                   /\ \A j \in Slots : Eligible(j) => OrderAfter(k, i) <= OrderAfter(k, j)
                   /\ tasks'[i].state = Running
                   /\ i = k => \A j \in Slots \ {k} : ~Eligible(j)]_vars

\* task 0 yielded with no deadline and the switch after it dispatched task 1
C24_Witness ==
    /\ last.op = "switch"
    /\ last.task = Some(1)
    /\ Frame.r12 = 1
    /\ Frame.r2 = 0
    /\ tasks[0].state = Stored
    /\ tasks[0].context = [sp |-> 2000, pc |-> 21]
    /\ tasks[1].state = Running
    /\ tasks[1].context.pc = PageStart(tasks[1].page)

\* C25: in the scheduler of src/internals/tasks.rs, a switch() taken while a
\* task is Waiting{until} with now() < until and another task is Ready or
\* Stored leaves the waiting task as it is and dispatches another task; a
\* Waiting task is dispatched only when now() >= until.
C25_LegacySwitchSkipsWaiting ==
    [][last'.op = "switch" =>
          \A w \in Slots : tasks[w].state.tag = "Waiting" =>
              /\ (/\ SYS_CLOCK < tasks[w].state.until
                  /\ \E o \in Slots : tasks[o].state.tag \in {"Ready", "Stored"}) =>
                    /\ tasks'[w].state = tasks[w].state
                    /\ IsSome(last'.task)
                    /\ last'.task /= Some(w)
              /\ last'.task = Some(w) =>
                    /\ SYS_CLOCK >= tasks[w].state.until
                    /\ tasks'[w].state = Running]_vars

\* (now - until) mod 2^32 read as a signed 32-bit integer, on the
\* two's-complement integers
signed_diff(now, until) ==
    IF (now >= 0) = (until >= 0) THEN now - until
    ELSE IF now >= 0
         THEN IF now > I32_MAX + until
              THEN (now - I32_MAX - 1) - (until + I32_MAX + 1)
              ELSE now - until
         ELSE IF now < until - I32_MAX - 1
              THEN (now + I32_MAX + 1) - (until - I32_MAX - 1)
              ELSE now - until

\* the kernel around the overflow of the counter, with tasks that sleep
\* through wait
WaitNext ==
    \/ \E len \in CodeLens : CreateTask(len, MaxWaitTasks)
    \/ Switch
    \/ \E ms \in Delays, sp \in SavedSp, pc \in SavedPc : Wait(ms, sp, pc)
    \/ \E sp \in SavedSp, pc \in SavedPc : ClockTick(sp, pc)

WaitSpec == ClockInit /\ [][WaitNext]_vars

\* C26: the readiness test of a Waiting{until} task is wrap-safe: the task
\* that switch() scans first is taken as ready, and dispatched, exactly when
\* (now() - until) mod 2^32 read as a signed 32-bit integer is non-negative.
C26_ReadinessWrapSafe ==
    [][last'.op = "switch" =>
          \A i \in Slots : (tasks[i].state.tag = "Waiting" /\ i = ScanStart) =>
              /\ executable(tasks[i], millis)
                    <=> signed_diff(millis, tasks[i].state.until) >= 0
              /\ last'.task = Some(i)
                    <=> signed_diff(SYS_CLOCK, tasks[i].state.until) >= 0]_vars

C28_UnregisterGuarded ==
    [][\A h \in held :
          (/\ last'.op = "unregister" /\ last'.ret = Some(h)
           /\ ~USED_PAGES[FrameIndex(h)]) =>
              /\ USED_PAGES' = USED_PAGES
              /\ \A g \in held \ {h} :
                    (/\ USED_PAGES[FrameIndex(g)]
                     /\ LEVEL2_PAGE_TABLE[L2Slot(g)] = Descriptor(g)) =>
                        LEVEL2_PAGE_TABLE'[L2Slot(g)] = Descriptor(g)]_vars

\* the least multiple of align that is not below addr
RoundedUp(addr, align) == addr + ((align - (addr % align)) % align)

\* C29: Alloc{size, align} of the Running task, whose allocator serves the
\* page up to page_end - 1024: if the rounded-up next plus size is within the
\* region, that address is returned and next is set past the block;
\* otherwise null is returned and next is unchanged. The first Alloc{64, 4}
\* returns the end of the code rounded up to 4, and an Alloc of a page returns
\* null.
C29_AllocBumps ==
    [][(last'.op = "Alloc" /\ IsSome(last'.task)) =>
          LET k == Unwrap(last'.task)
              size == Unwrap(trap').frame.r0
              align == Unwrap(trap').frame.r1
              a == tasks[k].allocator
              start == RoundedUp(a.next, align)
          IN /\ a.heap_end = PageEnd(tasks[k].page) - STACK_GUARD
             /\ tasks'[k].allocator.heap_start = a.heap_start
             /\ tasks'[k].allocator.heap_end = a.heap_end
             /\ IF start + size <= a.heap_end
                THEN /\ last'.value = Some(start)
                     /\ tasks'[k].allocator.next = start + size
                ELSE /\ last'.value = Some(0)
                     /\ tasks'[k].allocator.next = a.next
             /\ (a.next = a.heap_start /\ size = 64 /\ align = 4) =>
                   last'.value = Some(RoundedUp(a.heap_start, 4))
             /\ size = PAGE_SIZE => last'.value = Some(0)]_vars

\* a program of 101 bytes got 104 from its first Alloc{64, 4} and then null
\* from an Alloc of a page
C29_Witness ==
    /\ last.op = "Alloc"
    /\ last.value = Some(0)
    /\ Frame.r0 = PAGE_SIZE
    /\ IsSome(last.task)
    /\ tasks[Unwrap(last.task)].allocator.heap_start = 101
    /\ tasks[Unwrap(last.task)].allocator.next = 104 + 64

EventsAt(log, event) == {k \in 1..Len(log.events) : log.events[k].event = event}

\* the handler an interrupt was registered with last, noop if with none
LatestHandler(interrupt) ==
    IF registered[interrupt] = None THEN "noop" ELSE Unwrap(registered[interrupt])

C32_TimerAckBeforeHandler ==
    [][irq_log'.count = irq_log.count + 1 =>
           LET interrupt == current_interrupt(irq_log'.sir_irq)
               timer == IF IsSome(interrupt) THEN get_timer(TIMERS, Unwrap(interrupt))
                        ELSE None
               events == irq_log'.events
           IN /\ (IsSome(timer) /\ events[1].arg = "handle_timer_irq") =>
                     /\ Len(events) >= 3
                     /\ events[2] = Event("irq_acknowledge", Unwrap(timer).timer)
                     /\ events[3] = Event("handler", Unwrap(timer).handler)
                     /\ EventsAt(irq_log', "irq_acknowledge") = {2}
                     /\ EventsAt(irq_log', "handler") = {3}
              /\ timer = None =>
                     /\ EventsAt(irq_log', "irq_acknowledge") = {}
                     /\ EventsAt(irq_log', "handler") = {}
                     /\ UNCHANGED <<SYS_CLOCK, tasks, current_index, mode>>
              /\ last'.op = "tick_yield" =>
                     /\ EventsAt(irq_log', "irq_acknowledge") = {2}
                     /\ EventsAt(irq_log', "clear") = {}]_vars

\* the tick handler of Timer2 has yielded the running task 0: the overflow
\* was acknowledged, the handler did not return
C32_Witness ==
    /\ last.op = "tick_yield"
    /\ last.task = Some(0)
    /\ tasks[0].state = Stored
    /\ irq_log.sir_irq = TINT2
    /\ irq_log.events = <<Event("execute", "handle_timer_irq"),
                          Event("irq_acknowledge", "Timer2"),
                          Event("handler", "interrupt_handler")>>

\* C33: a create_task that succeeds takes the first Terminated slot in
\* circular order from current_index.unwrap_or(0) and returns its index; the
\* slot becomes Ready with a page handle of ASID = id, saved SP = the end of
\* the page and saved PC = its start, and no other slot changes.
C33_CreateTaskFillsFirstTerminated ==
    [][(last'.op = "create_task" /\ creates' = creates + 1 /\ IsSome(last'.ret)) =>
          LET id == Unwrap(last'.ret) IN
          /\ id \in Slots
          /\ tasks[id].state = Terminated
          /\ \A j \in Slots : ScanOrder(j) < ScanOrder(id) => tasks[j].state /= Terminated
          /\ tasks'[id].id = id
          /\ tasks'[id].state = Ready
          /\ tasks'[id].page.asid = Some(id)
          /\ tasks'[id].context.sp = tasks'[id].page.virtual_address + PAGE_SIZE - 4
          /\ tasks'[id].context.pc = tasks'[id].page.virtual_address
          /\ \A j \in Slots \ {id} : tasks'[j] = tasks[j]]_vars

\* with task 1 current and slots 0 and 2 Terminated, create_task has taken
\* slot 2, the first one from the current index
C33_Witness ==
    /\ last.op = "create_task" /\ last.ret = Some(2)
    /\ current_index = Some(1)
    /\ tasks[0].state = Terminated
    /\ tasks[2].state = Ready
    /\ tasks[2].page.asid = Some(2)

\* C34: a remove (or pop) that returns an element returns the one at its
\* index, moves the later elements one place down and makes len one less; and
\* pop on the empty vector returns None.
C34_RemoveShrinks ==
    [][last'.op \in {"remove", "pop"} =>
           LET ret == Unwrap(last'.value) IN
           /\ IsSome(ret) =>
                  \E i \in 0..(vec.len - 1) :
                      /\ last'.op = "pop" => i = vec.len - 1
                      /\ ret = Some(vec.data[i + 1])
                      /\ vec'.len = vec.len - 1
                      /\ \A k \in (i + 1)..(vec.len - 1) : vec'.data[k] = vec.data[k + 1]
           /\ (last'.op = "pop" /\ vec.len = 0) => ret = None]_vars

\* the tasks whose page is the frame of index i
FrameOwners(i) ==
    {t \in NonTerminated(tasks) :
        tasks[t].page.physical_address = BASE_ADDRESS + i * PAGE_SIZE}

\* C35: no two tasks that are not Terminated have pages with the same
\* physical frame: the frame of such a task is marked used, and a frame
\* marked used is the frame of exactly one of them.
C35_FramesDistinct ==
    /\ \A t, u \in NonTerminated(tasks) :
           t /= u => tasks[t].page.physical_address /= tasks[u].page.physical_address
    /\ \A t \in NonTerminated(tasks) :
           /\ FrameIndex(tasks[t].page) \in Pages
           /\ USED_PAGES[FrameIndex(tasks[t].page)]
    /\ \A i \in Pages : USED_PAGES[i] => Cardinality(FrameOwners(i)) = 1

\* every slot holds a live task, and one of them is in a slot and on a frame
\* that a task which exited had before
C35_Witness ==
    /\ last.op = "create_task" /\ IsSome(last.ret)
    /\ creates > MAX_TASKS
    /\ NonTerminated(tasks) = Slots
    /\ \A i \in Pages : USED_PAGES[i] <=> i < MAX_TASKS

\* C36: unregister is called once per page handle at most: only the Exit and
\* Panic arms call it, through terminate, on the task current() returns, which
\* is Running and holds a handle whose page is still marked used; the call
\* clears that mark and the task is Terminated, so a slot that is Terminated
\* or was never filled is not unregistered, and no other step frees a page.
C36_UnregisterOncePerHandle ==
    [][/\ (last'.op \in {"Exit", "Panic"} /\ IsSome(last'.task)) =>
             LET t == Unwrap(last'.task) IN
             /\ tasks[t].state = Running
             /\ tasks[t].page /= EmptyPage
             /\ USED_PAGES[FrameIndex(tasks[t].page)]
             /\ USED_PAGES' = [USED_PAGES EXCEPT ![FrameIndex(tasks[t].page)] = FALSE]
             /\ tasks'[t].state = Terminated
       /\ (last'.op \in {"Exit", "Panic"} /\ last'.task = None) =>
             UNCHANGED <<tasks, USED_PAGES, LEVEL2_PAGE_TABLE>>
       /\ (\E i \in Pages : USED_PAGES[i] /\ ~USED_PAGES'[i]) =>
             (last'.op \in {"Exit", "Panic"} /\ IsSome(last'.task))]_vars

\* two tasks were created and both have exited: each handle was unregistered
\* and no page is marked used
C36_Witness ==
    /\ last.op \in {"Exit", "Panic"} /\ IsSome(last.task)
    /\ creates = 2
    /\ NonTerminated(tasks) = {}
    /\ \E t \in Slots : t /= Unwrap(last.task) /\ tasks[t].page /= EmptyPage
    /\ \A i \in Pages : ~USED_PAGES[i]

\* C38: a create_task that returns None, for want of a Terminated slot or of
\* a free page, leaves the task table, current_index, USED_PAGES and the L2
\* table exactly as they were before the call.
C38_FailedCreateIsAtomic ==
    [][(last'.op = "create_task" /\ creates' = creates + 1 /\ last'.ret = None) =>
          /\ UNCHANGED <<tasks, current_index, USED_PAGES, LEVEL2_PAGE_TABLE>>
          /\ \/ NonTerminated(tasks) = Slots
             \/ FirstFree(USED_PAGES) = None]_vars

\* create_task has failed for want of a page: a slot is Terminated and every
\* page is marked used
C38_Witness ==
    /\ last.op = "create_task" /\ last.ret = None
    /\ NonTerminated(tasks) /= Slots
    /\ NonTerminated(tasks) /= {}
    /\ FirstFree(USED_PAGES) = None

\* C39: a task that called wait(ms) with ms > 0 at the clock value t0 is not
\* dispatched again before the clock has advanced by ms ticks: at each
\* dispatch of the task (now() - t0) mod 2^32 is at least ms.
C39_WaitSleeps ==
    [][(last'.op = "switch" /\ IsSome(last'.task)) =>
          LET w == waits[Unwrap(last'.task)] IN
          (IsSome(w) /\ Unwrap(w).ms > 0) =>
              u32_ge(u32_wrapping_sub(SYS_CLOCK, Unwrap(w).t0), Unwrap(w).ms)]_vars

\* C40: over any sequence of alloc calls on the bump allocator of
\* src/alloc/heap.rs, each pointer returned that is not null is a multiple of
\* the alignment asked for, lies in [heap_start, heap_end), and its block
\* overlaps no block returned before; next never decreases.
C40_BlocksAlignedInsideDisjoint ==
    [][last'.op = "alloc" =>
          /\ ALLOCATOR'.next >= ALLOCATOR.next
          /\ \A k \in 1..Len(blocks') :
                /\ blocks'[k].ptr % blocks'[k].align = 0
                /\ blocks'[k].ptr >= ALLOCATOR.heap_start
                /\ blocks'[k].ptr < ALLOCATOR.heap_end
                /\ \A j \in 1..(k - 1) :
                      \/ blocks'[j].ptr + blocks'[j].size <= blocks'[k].ptr
                      \/ blocks'[k].ptr + blocks'[k].size <= blocks'[j].ptr]_vars

====
